---- MODULE Spec2Model ----
(***************************************************************************)
(* grove: the session-tree state machine of internal/ui (Model.Update and  *)
(* the commands it issues), with the tmux backend and the Bubble Tea       *)
(* runtime as its environment.                                             *)
(*                                                                         *)
(* Go strings are sequences of one-character strings, so that prefix       *)
(* tests, lower-casing, trimming and slugging are computed, not assumed.   *)
(* Indices are 0-based as in the Go code: rows[i] is rows[i + 1] here.     *)
(***************************************************************************)
EXTENDS Integers, Sequences, FiniteSets, Bags, TLC

VARIABLES
    m,        \* the Model value owned by the Bubble Tea runtime
    cmds,     \* bag of issued tea.Cmd closures that have not run yet
    msgs,     \* bag of tea.Msg values produced and not yet delivered
    backend,  \* the tmux server: the set of session names that exist
    panes,    \* the tmux server: the pane records, in the order tmux lists them
    running,  \* FALSE once tea.Quit has been returned
    presses,  \* how many inputs the user has made
    frame     \* a call of one of the package's functions by itself: its
              \* arguments and, once it has returned, its result

vars == <<m, cmds, msgs, backend, panes, running, presses, frame>>

(***************************************************************************)
(* Bounds of the model.                                                    *)
(***************************************************************************)
MaxPresses == 4        \* inputs of a user who has every key
MaxFlowPresses == 5    \* inputs of a user who only fills in prompts
MaxAddPresses == 14    \* inputs of a user who only adds folders: two flows
MaxFairPresses == 5    \* inputs of the user of the fair specification
MaxInFlight == 2       \* commands and results outstanding at once
MaxPanes == 4          \* pane records tmux lists in the fetch specification
MaxTreePresses == 10   \* inputs of a user who adds a folder and filters the tree
MaxPreviewPresses == 6 \* inputs of a user who previews one session, then another
MaxTwicePresses == 18  \* inputs of a user who adds a folder twice and creates a session
MaxTotal == 20         \* rows of the tree that windowAround is called with
MaxItems == 21         \* height of the tree pane that windowAround is called with
MaxLeafLen == 5        \* length of the texts that sanitizeLeaf is called with

(***************************************************************************)
(* Strings.                                                                *)
(***************************************************************************)
Lower == {"a","b","c","d","e","f","g","h","i","j","k","l","m",
          "n","o","p","q","r","s","t","u","v","w","x","y","z"}
Digit == {"0","1","2","3","4","5","6","7","8","9"}
LowerOf == [A |-> "a", B |-> "b", C |-> "c", D |-> "d", E |-> "e", F |-> "f",
            G |-> "g", H |-> "h", I |-> "i", J |-> "j", K |-> "k", L |-> "l",
            M |-> "m", N |-> "n", O |-> "o", P |-> "p", Q |-> "q", R |-> "r",
            S |-> "s", T |-> "t", U |-> "u", V |-> "v", W |-> "w", X |-> "x",
            Y |-> "y", Z |-> "z"]

ToLower(s) == [i \in 1..Len(s) |-> IF s[i] \in DOMAIN LowerOf THEN LowerOf[s[i]] ELSE s[i]]

RECURSIVE TrimLeft(_, _)
TrimLeft(s, cut) == IF s # <<>> /\ Head(s) \in cut THEN TrimLeft(Tail(s), cut) ELSE s

RECURSIVE TrimRight(_, _)
TrimRight(s, cut) ==
    IF s # <<>> /\ s[Len(s)] \in cut THEN TrimRight(SubSeq(s, 1, Len(s) - 1), cut) ELSE s

Trim(s, cut) == TrimRight(TrimLeft(s, cut), cut)

TrimSpace(s) == Trim(s, {" "})

HasPrefix(s, p) == Len(s) >= Len(p) /\ SubSeq(s, 1, Len(p)) = p

TrimPrefix(s, p) == IF HasPrefix(s, p) THEN SubSeq(s, Len(p) + 1, Len(s)) ELSE s

Contains(s, needle) ==
    \E i \in 0..(Len(s) - Len(needle)) : SubSeq(s, i + 1, i + Len(needle)) = needle

containsAny(a, b, c, needle) == Contains(a, needle) \/ Contains(b, needle) \/ Contains(c, needle)

\* The loop shared by config.Slug and sanitizeLeaf: alphanumerics are kept,
\* the characters of `dropped` vanish, any other run becomes one hyphen.
RECURSIVE Dashify(_, _, _)
Dashify(s, lastDash, dropped) ==
    IF s = <<>> THEN <<>>
    ELSE IF Head(s) \in Lower \cup Digit THEN <<Head(s)>> \o Dashify(Tail(s), FALSE, dropped)
    ELSE IF Head(s) \in dropped THEN Dashify(Tail(s), lastDash, dropped)
    ELSE IF lastDash THEN Dashify(Tail(s), TRUE, dropped)
    ELSE <<"-">> \o Dashify(Tail(s), TRUE, dropped)

Slug(s) == Trim(Dashify(ToLower(TrimSpace(s)), FALSE, {}), {"-"})

\* A faulty sanitizeLeaf: a slash is a character like the others.
sanitizeLeafSlashed(in) ==
    LET o == Trim(Dashify(TrimSpace(ToLower(in)), FALSE, {}), {"-"})
    IN IF o = <<>> THEN <<"s","e","s","s","i","o","n">> ELSE o

sanitizeLeaf(in) ==
    LET o == Trim(Dashify(TrimSpace(ToLower(in)), FALSE, {"/"}), {"-"})
    IN IF o = <<>> THEN <<"s","e","s","s","i","o","n">> ELSE o

(***************************************************************************)
(* The inputs of the model: the configured folders, the session names the  *)
(* backend may hold, the texts a user types, the file system.              *)
(***************************************************************************)
NoStr == <<>>
ApiNs == <<"a","p","i">>
WebNs == <<"w","e","b">>
DirApi == <<"/","a">>
DirWeb == <<"/","w">>
FileF == <<"/","f">>
CmdMake == <<"m","k">>
EnvEditor == <<"v","i">>
CfgEditorCommand == NoStr

ApiOne == <<"a","p","i","/","o","n","e">>
WebTwo == <<"w","e","b","/","t","w","o">>
OtherSkip == <<"o","t","h","e","r","/","s","k","i","p">>
ApiTwo == <<"a","p","i","/","t","w","o">>
ApixY == <<"a","p","i","x","/","y">>

\* cfg.Folders as config.Load leaves it (Normalize has run).
InitFolders ==
    << [Name |-> <<"A","P","I">>, Path |-> DirApi, DefaultCommand |-> NoStr,
        EditorCommand |-> NoStr, Namespace |-> ApiNs],
       [Name |-> <<"w","e","b">>, Path |-> DirWeb, DefaultCommand |-> CmdMake,
        EditorCommand |-> NoStr, Namespace |-> WebNs] >>

\* tmux reports whether a client is attached; here it is a fact of the name.
Attached(name) == name = ApiOne

\* A session as Client.ListSessions returns it: the fields that come from the
\* panes are unset.  The alerts column of list-sessions is taken as empty.
Session(name) ==
    [Name |-> name, Attached |-> Attached(name), CurrentCommand |-> NoStr,
     PaneTitle |-> NoStr, CurrentPath |-> NoStr, AlertsBell |-> FALSE,
     AlertsActivity |-> FALSE, AlertsSilence |-> FALSE]

InitBackend == {ApiOne, WebTwo, OtherSkip}

\* A pane of a window that is not the active one.
BackgroundPane(name, window, activity, bell, silence) ==
    [SessionName |-> name, WindowIndex |-> window, Command |-> <<"s","h">>,
     PaneActive |-> TRUE, WindowActive |-> FALSE, PaneTitle |-> NoStr,
     ActivityFlag |-> activity, BellFlag |-> bell, SilenceFlag |-> silence,
     CurrentPath |-> NoStr]

\* The active pane of the active window.
ActivePane(name, window, command, title, path, bell) ==
    [SessionName |-> name, WindowIndex |-> window, Command |-> command,
     PaneActive |-> TRUE, WindowActive |-> TRUE, PaneTitle |-> title,
     ActivityFlag |-> FALSE, BellFlag |-> bell, SilenceFlag |-> FALSE,
     CurrentPath |-> path]

\* The pane of a session that tmux new-session has just created.
FreshPane(name) == ActivePane(name, 0, <<"s","h">>, NoStr, NoStr, FALSE)

ApiBackground == BackgroundPane(ApiOne, 0, TRUE, FALSE, FALSE)
ApiActive == ActivePane(ApiOne, 1, <<"g","o">>, <<" ","*"," ","C"," ">>, DirApi, TRUE)
WebBackground == BackgroundPane(WebTwo, 0, FALSE, FALSE, TRUE)
WebActive == ActivePane(WebTwo, 1, <<"s","h">>, <<"w">>, NoStr, FALSE)

\* tmux list-panes -a lists by session and window.
InitPanes == <<ApiBackground, ApiActive, FreshPane(OtherSkip), WebBackground, WebActive>>

\* os.Stat in the model's file system.
StatDir(path) == path \in {DirApi, DirWeb, <<"/","h">>}
StatExists(path) == StatDir(path) \/ path = FileF

(***************************************************************************)
(* Types of the UI package.                                                *)
(***************************************************************************)
rowFolder == "rowFolder"
rowSession == "rowSession"

promptNone == "promptNone"
promptNewSession == "promptNewSession"
promptRenameSession == "promptRenameSession"
promptRunCommand == "promptRunCommand"
promptFilter == "promptFilter"
promptAddFolder == "promptAddFolder"

detailNormal == "detailNormal"
detailPreview == "detailPreview"

\* A message text: a literal of the code and the value appended to it.
\* The empty Go string is NoText; a nil error is NoText as well.
NoText == <<>>
Text(literal, arg) == <<literal, arg>>

EmptyFolder ==
    [Name |-> NoStr, Path |-> NoStr, DefaultCommand |-> NoStr,
     EditorCommand |-> NoStr, Namespace |-> NoStr]

\* Byte order of the characters that occur in session names.
ByteOrder ==
    <<" ", "-", "/", "0","1","2","3","4","5","6","7","8","9",
      "A","B","C","D","E","F","G","H","I","J","K","L","M",
      "N","O","P","Q","R","S","T","U","V","W","X","Y","Z",
      "a","b","c","d","e","f","g","h","i","j","k","l","m",
      "n","o","p","q","r","s","t","u","v","w","x","y","z">>
Ord(c) == CHOOSE i \in 1..Len(ByteOrder) : ByteOrder[i] = c

\* Go's < on strings.
RECURSIVE StrLess(_, _)
StrLess(a, b) ==
    IF b = <<>> THEN FALSE
    ELSE IF a = <<>> THEN TRUE
    ELSE IF Head(a) = Head(b) THEN StrLess(Tail(a), Tail(b))
    ELSE Ord(Head(a)) < Ord(Head(b))

\* sort.Slice(sessions, Name < Name), as an insertion sort.
RECURSIVE InsertByName(_, _)
InsertByName(s, sorted) ==
    IF sorted = <<>> THEN <<s>>
    ELSE IF StrLess(s.Name, Head(sorted).Name) THEN <<s>> \o sorted
    ELSE <<Head(sorted)>> \o InsertByName(s, Tail(sorted))

\* A faulty sort: the sessions stay in the order of the map.
SortKept(sessions) == sessions

RECURSIVE SortByName(_)
SortByName(sessions) ==
    IF sessions = <<>> THEN <<>>
    ELSE InsertByName(Head(sessions), SortByName(Tail(sessions)))

\* m.sessions[folderIndex]: nil for a key the map does not hold.
SessionsOf(sessions, folderIndex) ==
    IF folderIndex \in DOMAIN sessions THEN sessions[folderIndex] ELSE <<>>

FolderRow(folderIndex) ==
    [typeOf |-> rowFolder, folderIndex |-> folderIndex, sessionName |-> NoStr,
     leafName |-> NoStr, status |-> NoStr, alertsBell |-> FALSE,
     alertsActivity |-> FALSE, alertsSilence |-> FALSE, currentCommand |-> NoStr,
     paneTitle |-> NoStr, currentPath |-> NoStr]

SessionRow(folderIndex, folder, s) ==
    [typeOf |-> rowSession, folderIndex |-> folderIndex, sessionName |-> s.Name,
     leafName |-> TrimPrefix(s.Name, folder.Namespace \o <<"/">>),
     status |-> IF s.Attached THEN <<"a","t","t","a","c","h","e","d">>
                ELSE <<"d","e","t","a","c","h","e","d">>,
     alertsBell |-> s.AlertsBell, alertsActivity |-> s.AlertsActivity,
     alertsSilence |-> s.AlertsSilence, currentCommand |-> s.CurrentCommand,
     paneTitle |-> s.PaneTitle, currentPath |-> s.CurrentPath]

\* A faulty filter: a session is kept only when it matches itself.
matchedSessionsOwn(folderMatches, query, all) ==
    LET Keep(row) ==
            query = NoStr
            \/ containsAny(ToLower(row.leafName), ToLower(row.sessionName),
                           ToLower(row.status), query)
    IN SelectSeq(all, Keep)

\* The session rows of one folder that the filter keeps.
matchedSessions(folderMatches, query, all) ==
    LET Keep(row) ==
            folderMatches \/ query = NoStr
            \/ containsAny(ToLower(row.leafName), ToLower(row.sessionName),
                           ToLower(row.status), query)
    IN SelectSeq(all, Keep)

\* A faulty loop body: a folder that does not match gets no row of its own.
MatchedRowsBare(folderIndex, folderMatches, matched) ==
    IF ~folderMatches THEN matched ELSE <<FolderRow(folderIndex)>> \o matched

\* The folder's row and its matching sessions, or nothing when neither matches.
MatchedRows(folderIndex, folderMatches, matched) ==
    IF ~folderMatches /\ Len(matched) = 0 THEN <<>>
    ELSE <<FolderRow(folderIndex)>> \o matched

FilteredRows(folderIndex, folderMatches, query, all) ==
    MatchedRows(folderIndex, folderMatches, matchedSessions(folderMatches, query, all))

SessionRows(folderIndex, folder, sessions) ==
    [i \in 1..Len(sessions) |-> SessionRow(folderIndex, folder, sessions[i])]

\* A faulty loop body: the folder is matched by its name alone.
RowsOfFolderByName(folderIndex, folder, query, sessions) ==
    FilteredRows(folderIndex, query = NoStr \/ Contains(ToLower(folder.Name), query),
                 query, SessionRows(folderIndex, folder, sessions))

RowsOfFolder(folderIndex, folder, query, sessions) ==
    FilteredRows(folderIndex,
                 query = NoStr \/ containsAny(ToLower(folder.Name), ToLower(folder.Path),
                                              ToLower(folder.Namespace), query),
                 query, SessionRows(folderIndex, folder, sessions))

\* The body of rebuildRows' loop: the rows of one folder.
FolderRows(mm, folderIndex) ==
    RowsOfFolder(folderIndex, mm.cfgFolders[folderIndex + 1],
                 ToLower(TrimSpace(mm.filterQuery)),
                 SortByName(SessionsOf(mm.sessions, folderIndex)))

RECURSIVE BuildRows(_, _)
BuildRows(mm, folderIndex) ==
    IF folderIndex >= Len(mm.cfgFolders) THEN <<>>
    ELSE FolderRows(mm, folderIndex) \o BuildRows(mm, folderIndex + 1)

\* A faulty storeRows: the detail scroll is kept.
storeRowsScrolled(mm, rows) ==
    LET clamped == IF mm.selected >= Len(rows) /\ Len(rows) > 0
                   THEN Len(rows) - 1 ELSE mm.selected
    IN [mm EXCEPT !.rows = rows,
                  !.selected = IF clamped < 0 THEN 0 ELSE clamped]

\* The end of rebuildRows: the rows are stored, the selection is clamped.
storeRows(mm, rows) ==
    LET clamped == IF mm.selected >= Len(rows) /\ Len(rows) > 0
                   THEN Len(rows) - 1 ELSE mm.selected
    IN [mm EXCEPT !.rows = rows,
                  !.selected = IF clamped < 0 THEN 0 ELSE clamped,
                  !.detailScroll = 0]

rebuildRows(mm) == storeRows(mm, BuildRows(mm, 0))

\* A faulty setSelected: the selection wraps around at both ends.
setSelectedWraps(mm, next) ==
    IF Len(mm.rows) = 0 THEN [mm EXCEPT !.selected = 0, !.detailScroll = 0]
    ELSE LET n == IF next < 0 THEN Len(mm.rows) - 1
                  ELSE IF next >= Len(mm.rows) THEN 0 ELSE next
         IN [mm EXCEPT !.selected = n,
                       !.detailScroll = IF n # mm.selected THEN 0 ELSE @]

setSelected(mm, next) ==
    IF Len(mm.rows) = 0 THEN [mm EXCEPT !.selected = 0, !.detailScroll = 0]
    ELSE LET lo == IF next < 0 THEN 0 ELSE next
             n == IF lo >= Len(mm.rows) THEN Len(mm.rows) - 1 ELSE lo
         IN [mm EXCEPT !.selected = n,
                       !.detailScroll = IF n # mm.selected THEN 0 ELSE @]

\* A faulty windowAround: a window that runs past the end is not moved back.
windowAroundPastEnd(selected, total, maxItems) ==
    IF total <= 0 THEN <<0, 0>>
    ELSE IF maxItems <= 0 \/ maxItems >= total THEN <<0, total>>
    ELSE LET start == IF selected - maxItems \div 2 < 0 THEN 0
                      ELSE selected - maxItems \div 2
         IN <<start, start + maxItems>>

\* windowAround: the rows [start, end) of the tree that are drawn.  maxItems
\* is positive where it is halved, so Go's / is \div.
windowAround(selected, total, maxItems) ==
    IF total <= 0 THEN <<0, 0>>
    ELSE IF maxItems <= 0 \/ maxItems >= total THEN <<0, total>>
    ELSE LET start == IF selected - maxItems \div 2 < 0 THEN 0
                      ELSE selected - maxItems \div 2
         IN IF start + maxItems > total
            THEN <<IF total - maxItems < 0 THEN 0 ELSE total - maxItems, total>>
            ELSE <<start, start + maxItems>>

\* What Update returns: the model, the batch of commands, tea.Quit or not.
Ret(mm, cs) == [m |-> mm, cmds |-> cs, quit |-> FALSE]

\* m.height stays 0 (no WindowSizeMsg is modelled), so contentHeight is 18.
contentHeight == 18

\* setStatus: the model it leaves; the clear it schedules is clearStatusCmd.
setStatus(mm, msg) ==
    [mm EXCEPT !.statusMsg = msg, !.errMsg = NoText, !.statusSeq = @ + 1]

\* tea.Tick(statusClearDelay, ...) of setStatus, for the model setStatus left.
\* forStatus records the status the clear was scheduled for; no code reads it.
clearStatusCmd(mm) ==
    [op |-> "clearStatus", seq |-> mm.statusSeq, forStatus |-> mm.statusMsg]

HasSelection(mm) == ~(Len(mm.rows) = 0 \/ mm.selected < 0 \/ mm.selected >= Len(mm.rows))

\* selectedSessionRow: its ok result, and the row when ok.
\* A faulty selectedSessionRow: any selected row will do.
selectedSessionRowAny(mm) == HasSelection(mm)

selectedSessionRowOk(mm) == HasSelection(mm) /\ mm.rows[mm.selected + 1].typeOf = rowSession
selectedSessionRow(mm) == mm.rows[mm.selected + 1]

\* selectedFolder: its ok result, and the folder when ok.
selectedFolderOk(mm) == HasSelection(mm)
selectedFolder(mm) == mm.cfgFolders[mm.rows[mm.selected + 1].folderIndex + 1]

openPrompt(mm, mode, initial) ==
    [mm EXCEPT !.promptMode = mode, !.promptValue = initial, !.errMsg = NoText,
               !.statusMsg = IF mode = promptRunCommand
                             THEN Text("run command in selected session", NoStr)
                             ELSE NoText]

(***************************************************************************)
(* Commands (tea.Cmd) and messages (tea.Msg).                              *)
(***************************************************************************)
\* loadSessionsCmd closes over the Model value: the folders it groups by
\* are those of the moment it was issued.
loadSessionsCmd(mm) == [op |-> "loadSessions", folders |-> mm.cfgFolders]

tickCmd == [op |-> "tick"]

\* What Update returns next to the model setStatus left: its clear, and more.
Told(m1, more) == Ret(m1, {clearStatusCmd(m1)} \cup more)

\* The same with a fetch, which closes over the model setStatus left.
ToldAndLoad(m1, more) == Told(m1, {loadSessionsCmd(m1)} \cup more)

previewTickCmd == [op |-> "previewTick"]

newSessionCmd(folder, leaf) ==
    [op |-> "newSession", fullName |-> folder.Namespace \o <<"/">> \o sanitizeLeaf(leaf),
     path |-> folder.Path, defaultCommand |-> folder.DefaultCommand]

renameSessionCmd(oldName, newName) ==
    [op |-> "renameSession", oldName |-> oldName, newName |-> newName]

killSessionCmd(name) == [op |-> "killSession", name |-> name]

addFolderCmd(f) == [op |-> "addFolder", folder |-> f]

sendCommandCmd(name, command) == [op |-> "sendCommand", name |-> name, command |-> command]

\* capturePaneCmd closes over its receiver.  entry records which entry into
\* the preview the receiver was in; no code reads it.
capturePaneCmd(mm, target, seq) ==
    [op |-> "capturePane", target |-> target, seq |-> seq, entry |-> mm.previewEntry]

\* tea.ExecProcess(m.client.AttachCommand(name), ...)
attachCmd(name) == [op |-> "attach", name |-> name]

openEditorInDir(cmdStr, dir) == [op |-> "openEditor", cmdStr |-> cmdStr, dir |-> dir]

resolveEditorCommand(folder) ==
    IF folder.EditorCommand # NoStr THEN folder.EditorCommand
    ELSE IF CfgEditorCommand # NoStr THEN CfgEditorCommand
    ELSE EnvEditor

KeyMsg(k) == [type |-> "key", key |-> k]

\* The editing keys that leave the prompt's text input holding `value`.
InputMsg(value) == [type |-> "input", value |-> value]

\* strings.ToLower(key.String()) for the keys of the model.
KeyLower(k) == IF k \in DOMAIN LowerOf THEN LowerOf[k] ELSE k

(***************************************************************************)
(* updateKillConfirm                                                       *)
(***************************************************************************)
\* A faulty updateKillConfirm: the target is cleared before the kill reads it.
updateKillConfirmCleared(mm, msg) ==
    IF msg.type = "key" /\ KeyLower(msg.key) \in {"y", "enter"}
    THEN Ret([mm EXCEPT !.confirmKillTarget = NoStr], {killSessionCmd(NoStr)})
    ELSE IF msg.type = "key" /\ KeyLower(msg.key) \in {"n", "esc"}
    THEN Told(setStatus([mm EXCEPT !.confirmKillTarget = NoStr],
                        Text("kill cancelled", NoStr)), {})
    ELSE Ret(mm, {})

\* A faulty updateKillConfirm: the arrow keys still move the selection.
updateKillConfirmMoves(mm, msg) ==
    IF msg.type = "key" /\ KeyLower(msg.key) \in {"y", "enter"}
    THEN Ret([mm EXCEPT !.confirmKillTarget = NoStr], {killSessionCmd(mm.confirmKillTarget)})
    ELSE IF msg.type = "key" /\ KeyLower(msg.key) \in {"n", "esc"}
    THEN Told(setStatus([mm EXCEPT !.confirmKillTarget = NoStr],
                        Text("kill cancelled", NoStr)), {})
    ELSE IF msg.type = "key" /\ msg.key = "down"
    THEN Ret(setSelected(mm, mm.selected + 1), {})
    ELSE Ret(mm, {})

updateKillConfirm(mm, msg) ==
    IF msg.type # "key" THEN Ret(mm, {})
    ELSE IF KeyLower(msg.key) \in {"y", "enter"} THEN
        LET target == mm.confirmKillTarget
        IN Ret([mm EXCEPT !.confirmKillTarget = NoStr], {killSessionCmd(target)})
    ELSE IF KeyLower(msg.key) \in {"n", "esc"} THEN
        Told(setStatus([mm EXCEPT !.confirmKillTarget = NoStr],
                       Text("kill cancelled", NoStr)), {})
    ELSE Ret(mm, {})

(***************************************************************************)
(* startPreview and updatePreview                                          *)
(***************************************************************************)
\* A faulty startPreview: the sequence number is left as it was.
startPreviewSameSeq(mm) ==
    IF ~selectedSessionRowOk(mm) THEN [mm EXCEPT !.detailMode = detailNormal]
    ELSE [mm EXCEPT !.previewTarget = selectedSessionRow(mm).sessionName,
                    !.previewLoading = TRUE,
                    !.previewErr = NoText,
                    !.previewContent = NoText,
                    !.detailScroll = 0,
                    !.previewZoomed = FALSE]

\* The model startPreview leaves (its receiver is a pointer).
startPreview(mm) ==
    IF ~selectedSessionRowOk(mm) THEN [mm EXCEPT !.detailMode = detailNormal]
    ELSE [mm EXCEPT !.previewSeq = @ + 1,
                    !.previewTarget = selectedSessionRow(mm).sessionName,
                    !.previewLoading = TRUE,
                    !.previewErr = NoText,
                    !.previewContent = NoText,
                    !.detailScroll = 0,
                    !.previewZoomed = FALSE]

\* The commands startPreview returns.
startPreviewCmds(mm) ==
    IF ~selectedSessionRowOk(mm) THEN {}
    ELSE {capturePaneCmd(mm, selectedSessionRow(mm).sessionName, mm.previewSeq + 1)}

\* A faulty updatePreview: the kill key reaches its Navigate binding while
\* the preview stays.
updatePreviewKills(mm, msg) ==
    IF msg.key = "K" /\ selectedSessionRowOk(mm)
    THEN Ret([mm EXCEPT !.confirmKillTarget = selectedSessionRow(mm).sessionName], {})
    ELSE Ret(mm, {})

\* A faulty updatePreview: escape un-zooms and never leaves the preview.
updatePreviewHeld(mm, msg) ==
    IF msg.key = "esc" THEN Ret([mm EXCEPT !.previewZoomed = FALSE], {})
    ELSE IF msg.key = "z" THEN Ret([mm EXCEPT !.previewZoomed = ~@, !.detailScroll = 0], {})
    ELSE Ret(mm, {})

updatePreview(mm, msg) ==
    CASE msg.key = "q" -> [m |-> mm, cmds |-> {}, quit |-> TRUE]
      [] msg.key = "esc" ->
            IF mm.previewZoomed THEN Ret([mm EXCEPT !.previewZoomed = FALSE], {})
            ELSE Ret([mm EXCEPT !.detailMode = detailNormal], {})
      [] msg.key = "z" ->
            Ret([mm EXCEPT !.previewZoomed = ~@, !.detailScroll = 0], {})
      [] msg.key = "r" -> Ret(mm, {capturePaneCmd(mm, mm.previewTarget, mm.previewSeq)})
      [] msg.key = "enter" ->
            IF ~selectedSessionRowOk(mm) THEN Ret(mm, {})
            ELSE LET row == selectedSessionRow(mm)
                 IN Ret([mm EXCEPT !.detailMode = detailNormal,
                                   !.previewZoomed = FALSE,
                                   !.statusMsg = Text("attached to ", row.sessionName),
                                   !.errMsg = NoText],
                        {attachCmd(row.sessionName)})
      [] OTHER -> Ret(mm, {})

(***************************************************************************)
(* updatePrompt                                                            *)
(***************************************************************************)
Home == <<"/","h">>

\* filepath.Join of two clean elements.
Join(a, b) == IF b = NoStr THEN a ELSE a \o <<"/">> \o b

ExpandHome(path) ==
    IF path = <<"~">> THEN Home
    ELSE IF HasPrefix(path, <<"~","/">>) THEN Join(Home, SubSeq(path, 3, Len(path)))
    ELSE path

\* filepath.Abs with the working directory at the root.
Abs(path) == IF HasPrefix(path, <<"/">>) THEN path ELSE <<"/">> \o path

Fail(mm, literal, arg) == Ret([mm EXCEPT !.errMsg = Text(literal, arg)], {})

submitNewSession(m1, value) ==
    IF ~selectedFolderOk(m1) THEN Fail(m1, "select a folder", NoStr)
    ELSE IF value = NoStr THEN Fail(m1, "session name is required", NoStr)
    ELSE Ret(m1, {newSessionCmd(selectedFolder(m1), value)})

submitRename(m1, value) ==
    IF ~selectedSessionRowOk(m1) THEN Fail(m1, "select a session", NoStr)
    ELSE IF value = NoStr THEN Fail(m1, "new session name is required", NoStr)
    ELSE LET row == selectedSessionRow(m1)
             folder == m1.cfgFolders[row.folderIndex + 1]
         IN Ret(m1, {renameSessionCmd(row.sessionName,
                                      folder.Namespace \o <<"/">> \o sanitizeLeaf(value))})

submitRunCommand(m1, value) ==
    IF ~selectedSessionRowOk(m1) THEN Fail(m1, "select a session", NoStr)
    ELSE IF value = NoStr THEN Fail(m1, "command cannot be empty", NoStr)
    ELSE Ret(m1, {sendCommandCmd(selectedSessionRow(m1).sessionName, value)})

\* A faulty advance: an empty default command also skips the editor step.
advanceAddFolderSkips(m1, step) ==
    openPrompt([m1 EXCEPT !.promptStep = IF step = 3 /\ m1.pendingFolder.DefaultCommand = NoStr
                                         THEN 4 ELSE step,
                          !.promptMode = promptAddFolder],
               promptAddFolder, NoStr)

\* The next step of the add-folder flow: promptStep, promptMode, openPrompt.
advanceAddFolder(m1, step) ==
    openPrompt([m1 EXCEPT !.promptStep = step, !.promptMode = promptAddFolder],
               promptAddFolder, NoStr)

\* Step 0 of the add-folder flow, ns being config.Slug(value).
submitFolderName(m1, value, ns) ==
    IF value = NoStr THEN Fail(m1, "folder name is required", NoStr)
    ELSE IF ns = NoStr THEN Fail(m1, "folder name produced empty namespace", NoStr)
    ELSE IF \E i \in 1..Len(m1.cfgFolders) : m1.cfgFolders[i].Namespace = ns
         THEN Fail(m1, "namespace already exists", ns)
    ELSE Ret(advanceAddFolder([m1 EXCEPT !.pendingFolder.Name = value,
                                         !.pendingFolder.Namespace = ns], 1), {})

\* A faulty step 1: a path that exists passes, directory or not.
submitFolderPathAnyFile(m1, value, absPath) ==
    IF value = NoStr THEN Fail(m1, "folder path is required", NoStr)
    ELSE IF ~StatExists(absPath) THEN Fail(m1, "path not found", absPath)
    ELSE Ret(advanceAddFolder([m1 EXCEPT !.pendingFolder.Path = absPath], 2), {})

\* Step 1 of the add-folder flow, absPath being the expanded, absolute path.
submitFolderPath(m1, value, absPath) ==
    IF value = NoStr THEN Fail(m1, "folder path is required", NoStr)
    ELSE IF ~StatExists(absPath) THEN Fail(m1, "path not found", absPath)
    ELSE IF ~StatDir(absPath) THEN Fail(m1, "path is not a directory", NoStr)
    ELSE Ret(advanceAddFolder([m1 EXCEPT !.pendingFolder.Path = absPath], 2), {})

\* Step 3 of the add-folder flow, f being the folder with its editor set.
submitFolder(m1, f) == Ret([m1 EXCEPT !.pendingFolder = f], {addFolderCmd(f)})

submitAddFolder(m1, value) ==
    CASE m1.promptStep = 0 -> submitFolderName(m1, value, Slug(value))
      [] m1.promptStep = 1 -> submitFolderPath(m1, value, Abs(ExpandHome(value)))
      [] m1.promptStep = 2 ->
            Ret(advanceAddFolder([m1 EXCEPT !.pendingFolder.DefaultCommand = value], 3), {})
      [] m1.promptStep = 3 ->
            submitFolder(m1, [m1.pendingFolder EXCEPT !.EditorCommand = value])
      [] OTHER -> Ret(m1, {})

\* A faulty filter submission: the rows are left as they were.
submitFilterStale(m1, value) ==
    Told(setStatus([m1 EXCEPT !.filterQuery = value],
                   IF value = NoStr THEN Text("filter cleared", NoStr)
                   ELSE Text("filter set: ", value)), {})

submitFilter(m1, value) ==
    Told(setStatus(rebuildRows([m1 EXCEPT !.filterQuery = value]),
                   IF value = NoStr THEN Text("filter cleared", NoStr)
                   ELSE Text("filter set: ", value)), {})

\* m.prompt.Blur() where a prompt closes.  The text input keeps its text in
\* the code, but nothing reads it before the next openPrompt sets it, so the
\* model forgets it here.
Blur(mm) == [mm EXCEPT !.promptValue = NoStr]

\* The switch on the mode of the prompt that enter closed: m1 is the model
\* with the prompt closed, value the trimmed text.
submit(m1, mode, value) ==
    CASE mode = promptNewSession -> submitNewSession(m1, value)
      [] mode = promptRenameSession -> submitRename(m1, value)
      [] mode = promptRunCommand -> submitRunCommand(m1, value)
      [] mode = promptAddFolder -> submitAddFolder(m1, value)
      [] mode = promptFilter -> submitFilter(m1, value)

\* A faulty updatePrompt: the arrow keys move the selection under the prompt.
updatePromptMoves(mm, msg) ==
    IF msg.type = "key" /\ msg.key = "esc" THEN
        Ret(Blur([mm EXCEPT !.promptMode = promptNone, !.statusMsg = NoText]), {})
    ELSE IF msg.type = "key" /\ msg.key = "enter" THEN
        submit(Blur([mm EXCEPT !.promptMode = promptNone]), mm.promptMode,
               TrimSpace(mm.promptValue))
    ELSE IF msg.type = "key" /\ msg.key = "up" THEN Ret(setSelected(mm, mm.selected - 1), {})
    ELSE IF msg.type = "key" /\ msg.key = "down" THEN Ret(setSelected(mm, mm.selected + 1), {})
    ELSE IF msg.type = "input" THEN Ret([mm EXCEPT !.promptValue = msg.value], {})
    ELSE Ret(mm, {})

\* A faulty updatePrompt: escape submits the text as enter does.
updatePromptSubmits(mm, msg) ==
    IF msg.type = "key" /\ msg.key \in {"esc", "enter"} THEN
        submit(Blur([mm EXCEPT !.promptMode = promptNone]), mm.promptMode,
               TrimSpace(mm.promptValue))
    ELSE IF msg.type = "input" THEN Ret([mm EXCEPT !.promptValue = msg.value], {})
    ELSE Ret(mm, {})

updatePrompt(mm, msg) ==
    IF msg.type = "key" /\ msg.key = "esc" THEN
        Ret(Blur([mm EXCEPT !.promptMode = promptNone, !.statusMsg = NoText]), {})
    ELSE IF msg.type = "key" /\ msg.key = "enter" THEN
        submit(Blur([mm EXCEPT !.promptMode = promptNone]), mm.promptMode,
               TrimSpace(mm.promptValue))
    \* m.prompt.Update(msg): only the editing keys change the text input.
    ELSE IF msg.type = "input" THEN Ret([mm EXCEPT !.promptValue = msg.value], {})
    ELSE Ret(mm, {})

(***************************************************************************)
(* Update                                                                  *)
(***************************************************************************)
\* defaultSessionLeaf: the namespace and the clock's time, sanitized.
Now == <<"0","1">>
defaultSessionLeaf(folder) == sanitizeLeaf(folder.Namespace \o <<"-">> \o Now)

\* A faulty clearFilter: the filter is emptied and the rows are left.
clearFilterStale(mm) ==
    Told(setStatus([mm EXCEPT !.filterQuery = NoStr], Text("filter cleared", NoStr)), {})

\* The esc case of Update with a filter set.
clearFilter(mm) ==
    Told(setStatus(rebuildRows([mm EXCEPT !.filterQuery = NoStr]),
                   Text("filter cleared", NoStr)), {})

\* The key bindings of Navigate mode.  copiedFirst: Update's `return m,
\* tea.Batch(m.startPreview(), ...)` reads m and calls a method that writes m
\* in one statement, and Go leaves the order of the two open: the model
\* returned is the one before startPreview ran (TRUE) or the one after.
updateKey(mm, msg, copiedFirst) ==
    CASE msg.key = "q" -> [m |-> mm, cmds |-> {}, quit |-> TRUE]
      [] msg.key = "esc" ->
            IF mm.filterQuery # NoStr THEN clearFilter(mm) ELSE Ret(mm, {})
      [] msg.key = "up" -> Ret(setSelected(mm, mm.selected - 1), {})
      [] msg.key = "down" -> Ret(setSelected(mm, mm.selected + 1), {})
      [] msg.key = "r" -> Ret(mm, {loadSessionsCmd(mm)})
      [] msg.key = "/" -> Ret(openPrompt(mm, promptFilter, mm.filterQuery), {})
      [] msg.key = "pgdown" ->
            Ret([mm EXCEPT !.detailScroll = @ + contentHeight \div 2], {})
      [] msg.key = "pgup" ->
            Ret([mm EXCEPT !.detailScroll =
                     IF @ - contentHeight \div 2 < 0 THEN 0 ELSE @ - contentHeight \div 2], {})
      [] msg.key = "n" ->
            IF ~selectedFolderOk(mm)
            THEN Fail(mm, "select a folder or one of its sessions", NoStr)
            ELSE Ret(openPrompt(mm, promptNewSession,
                                defaultSessionLeaf(selectedFolder(mm))), {})
      [] msg.key = "R" ->
            IF ~selectedSessionRowOk(mm) THEN Fail(mm, "select a session to rename", NoStr)
            ELSE Ret(openPrompt(mm, promptRenameSession, selectedSessionRow(mm).leafName), {})
      [] msg.key = "c" ->
            IF ~selectedSessionRowOk(mm)
            THEN Fail(mm, "select a session to run command", NoStr)
            ELSE Ret(openPrompt(mm, promptRunCommand, NoStr), {})
      [] msg.key = "K" ->
            IF ~selectedSessionRowOk(mm) THEN Fail(mm, "select a session to kill", NoStr)
            ELSE Ret([mm EXCEPT !.confirmKillTarget = selectedSessionRow(mm).sessionName,
                                !.statusMsg = NoText, !.errMsg = NoText], {})
      [] msg.key = "A" ->
            Ret(openPrompt([mm EXCEPT !.promptStep = 0, !.pendingFolder = EmptyFolder],
                           promptAddFolder, NoStr), {})
      [] msg.key = "v" ->
            IF ~selectedSessionRowOk(mm) THEN Fail(mm, "select a session to preview", NoStr)
            \* previewEntry counts the entries into the preview; no code reads it.
            ELSE LET m1 == [mm EXCEPT !.detailMode = detailPreview, !.previewEntry = @ + 1]
                 IN Ret(IF copiedFirst THEN m1 ELSE startPreview(m1),
                        startPreviewCmds(m1) \cup {previewTickCmd})
      [] msg.key = "e" ->
            IF ~selectedFolderOk(mm) THEN Fail(mm, "select a folder or session", NoStr)
            ELSE IF resolveEditorCommand(selectedFolder(mm)) = NoStr
                 THEN Fail(mm, "no editor configured", NoStr)
            ELSE Ret(mm, {openEditorInDir(
                              resolveEditorCommand(selectedFolder(mm)),
                              IF selectedSessionRowOk(mm)
                                 /\ selectedSessionRow(mm).currentPath # NoStr
                              THEN selectedSessionRow(mm).currentPath
                              ELSE selectedFolder(mm).Path)})
      [] msg.key = "enter" ->
            IF ~selectedSessionRowOk(mm) THEN Ret(mm, {})
            ELSE LET row == selectedSessionRow(mm)
                 IN Ret([mm EXCEPT !.statusMsg = Text("attached to ", row.sessionName),
                                   !.errMsg = NoText],
                        {attachCmd(row.sessionName)})
      [] OTHER -> Ret(mm, {})

onSessionsLoaded(mm, msg) ==
    IF msg.err # NoText THEN Ret([mm EXCEPT !.errMsg = msg.err], {})
    ELSE Ret([rebuildRows([mm EXCEPT !.sessions = msg.sessions]) EXCEPT !.errMsg = NoText], {})

onActionResult(mm, msg) ==
    IF msg.err # NoText THEN Ret([mm EXCEPT !.errMsg = msg.err], {loadSessionsCmd(mm)})
    ELSE ToldAndLoad(setStatus(mm, msg.status),
                     IF msg.attachTarget # NoStr THEN {attachCmd(msg.attachTarget)} ELSE {})

onAttached(mm, msg) ==
    IF msg.err # NoText THEN Ret([mm EXCEPT !.errMsg = msg.err], {loadSessionsCmd(mm)})
    ELSE ToldAndLoad(setStatus(mm, Text("detached from session", NoStr)), {})

onPaneCaptured(mm, msg) ==
    IF msg.seq # mm.previewSeq THEN Ret(mm, {})
    ELSE IF msg.err # NoText
         THEN Ret([mm EXCEPT !.previewLoading = FALSE, !.previewErr = msg.err,
                             !.previewContent = NoText], {})
    ELSE Ret([mm EXCEPT !.previewLoading = FALSE, !.previewErr = NoText,
                        !.previewContent = msg.content], {})

\* A faulty previewTickMsg case: the mode is not looked at.
onPreviewTickAlways(mm) ==
    Ret(mm, {capturePaneCmd(mm, mm.previewTarget, mm.previewSeq), previewTickCmd})

onPreviewTick(mm) ==
    IF mm.detailMode # detailPreview THEN Ret(mm, {})
    ELSE Ret(mm, {capturePaneCmd(mm, mm.previewTarget, mm.previewSeq), previewTickCmd})

onFolderAdded(mm, msg) ==
    IF msg.err # NoText THEN Ret([mm EXCEPT !.errMsg = msg.err], {})
    ELSE ToldAndLoad(setStatus(rebuildRows([mm EXCEPT !.cfgFolders = Append(@, msg.folder)]),
                               Text("added folder: ", msg.folder.Name)), {})

onClearStatus(mm, msg) ==
    IF msg.seq = mm.statusSeq THEN Ret([mm EXCEPT !.statusMsg = NoText], {}) ELSE Ret(mm, {})

onTick(mm) == Ret(mm, {tickCmd, loadSessionsCmd(mm)})

Update(mm, msg, copiedFirst) ==
    IF mm.promptMode # promptNone THEN updatePrompt(mm, msg)
    ELSE IF mm.confirmKillTarget # NoStr THEN updateKillConfirm(mm, msg)
    ELSE CASE msg.type = "key" ->
                IF mm.detailMode = detailPreview THEN updatePreview(mm, msg)
                ELSE updateKey(mm, msg, copiedFirst)
           [] msg.type = "sessionsLoaded" -> onSessionsLoaded(mm, msg)
           [] msg.type = "actionResult" -> onActionResult(mm, msg)
           [] msg.type = "attached" -> onAttached(mm, msg)
           [] msg.type = "paneCaptured" -> onPaneCaptured(mm, msg)
           [] msg.type = "previewTick" -> onPreviewTick(mm)
           [] msg.type = "folderAdded" -> onFolderAdded(mm, msg)
           [] msg.type = "clearStatus" -> onClearStatus(mm, msg)
           [] msg.type = "tick" -> onTick(mm)
           [] OTHER -> Ret(mm, {})

\* NewModel: the zero Model with its rows built.
NewModel ==
    rebuildRows([cfgFolders |-> InitFolders, rows |-> <<>>, selected |-> 0,
                 sessions |-> <<>>, statusMsg |-> NoText, statusSeq |-> 0,
                 errMsg |-> NoText, filterQuery |-> NoStr, confirmKillTarget |-> NoStr,
                 detailScroll |-> 0, detailMode |-> detailNormal, previewTarget |-> NoStr,
                 previewContent |-> NoText, previewLoading |-> FALSE, previewErr |-> NoText,
                 previewSeq |-> 0, previewEntry |-> 0, previewZoomed |-> FALSE, promptValue |-> NoStr,
                 promptMode |-> promptNone, promptStep |-> 0, pendingFolder |-> EmptyFolder])

(***************************************************************************)
(* The environment: the Bubble Tea runtime, the user, tmux.                *)
(***************************************************************************)
TimerOps == {"tick", "previewTick", "clearStatus"}

\* The message a tea.Tick command delivers when its delay has passed.
TimerMsg(c) ==
    IF c.op = "clearStatus"
    THEN [type |-> "clearStatus", seq |-> c.seq, forStatus |-> c.forStatus]
    ELSE [type |-> c.op]

Sum(bag, W(_)) ==
    LET RECURSIVE Total(_)
        Total(S) == IF S = {} THEN 0
                    ELSE LET x == CHOOSE y \in S : TRUE
                         IN bag[x] * W(x) + Total(S \ {x})
    IN Total(DOMAIN bag)

\* How many commands may come to be outstanding at once out of one
\* outstanding command or message (a created session is attached next to
\* the fetch its result issues).
LoadOfCmd(c) == IF c.op = "newSession" THEN 2 ELSE 1
LoadOfMsg(x) ==
    IF x.type \in TimerOps THEN 0
    ELSE IF x.type = "actionResult" /\ x.attachTarget # NoStr THEN 2 ELSE 1
InFlight(cs, ms) == Sum(cs, LoadOfCmd) + Sum(ms, LoadOfMsg)

\* The bound on what is outstanding limits what the user and the timers
\* may start; the delivery of a result is never held back.
WithinBounds(cs, ms) ==
    InFlight(cs, ms) <= MaxInFlight \/ InFlight(cs, ms) <= InFlight(cmds, msgs)

\* One call of Update by the runtime: the model is replaced, timers start,
\* the other commands wait to run.
Returned(r, rest, pressed) ==
    \E cs \in {cmds (+) SetToBag({c \in r.cmds : c.op \notin TimerOps})},
       ms \in {rest (+) SetToBag({TimerMsg(c) : c \in {d \in r.cmds : d.op \in TimerOps}})} :
        /\ WithinBounds(cs, ms)
        /\ presses' = presses + pressed
        /\ m' = r.m
        /\ cmds' = cs
        /\ msgs' = ms
        /\ running' = ~r.quit
        /\ UNCHANGED <<backend, panes, frame>>

Step(msg, rest, copiedFirst, pressed) ==
    running /\ Returned(Update(m, msg, copiedFirst), rest, pressed)

Keys == {"q", "esc", "up", "down", "r", "/", "pgdown", "pgup", "n", "R", "c", "K",
         "A", "v", "e", "enter", "z", "y", "Y", "x"}

\* In a prompt the character keys are text: Type stands for them.
PromptKeys == {"esc", "enter", "up", "down"}

\* The user, having made fewer than budget inputs, presses the key k.
Press(k, budget) ==
    /\ presses < budget
    /\ m.promptMode = promptNone \/ k \in PromptKeys
    /\ \E copiedFirst \in (IF k = "v" THEN BOOLEAN ELSE {FALSE}) :
           Step(KeyMsg(k), msgs, copiedFirst, 1)

\* The texts a user types, by prompt.
Inputs(mm) ==
    CASE mm.promptMode = promptFilter -> {NoStr, <<"O","N","E">>, <<"z">>}
      [] mm.promptMode = promptNewSession -> {NoStr, <<"T","w","o">>}
      [] mm.promptMode = promptRenameSession -> {NoStr, <<" ","T","w","/","o"," ">>}
      [] mm.promptMode = promptRunCommand -> {NoStr, CmdMake}
      [] mm.promptMode = promptAddFolder /\ mm.promptStep = 0 ->
            {NoStr, <<"-">>, <<"A","p","i","!">>, <<"O","p","s">>}
      [] mm.promptMode = promptAddFolder /\ mm.promptStep = 1 ->
            {NoStr, <<"~">>, FileF, <<"/","x">>}
      [] mm.promptMode = promptAddFolder /\ mm.promptStep = 2 -> {NoStr, CmdMake}
      [] mm.promptMode = promptAddFolder /\ mm.promptStep = 3 -> {NoStr, EnvEditor}
      [] OTHER -> {}

\* The user, having made fewer than budget inputs, edits the text of the
\* open prompt into v.
Type(v, budget) ==
    /\ presses < budget
    /\ m.promptMode # promptNone
    /\ v # m.promptValue
    /\ Step(InputMsg(v), msgs, FALSE, 1)

PressKey == \E k \in Keys : Press(k, MaxPresses)
TypeText == \E v \in Inputs(m) : Type(v, MaxPresses)

\* A user who opens the prompts, fills them in and submits or leaves them.
FlowKeys == {"A", "n", "R", "c", "down", "esc", "enter"}
PressFlowKey == \E k \in FlowKeys : Press(k, MaxFlowPresses)
TypeFlowText == \E v \in Inputs(m) : Type(v, MaxFlowPresses)

\* A user who adds folders.
AddKeys == {"A", "esc", "enter"}
PressAddKey == \E k \in AddKeys : Press(k, MaxAddPresses)
TypeAddText == \E v \in Inputs(m) : Type(v, MaxAddPresses)

\* A user who kills sessions and filters the tree.
FairKeys == {"down", "K", "y", "/", "esc", "enter"}
PressFairKey == \E k \in FairKeys : Press(k, MaxFairPresses)
TypeFairText == \E v \in Inputs(m) : Type(v, MaxFairPresses)

\* A user who adds the folder Ops, adds it again and creates sessions.
TwiceKeys == {"A", "enter", "down", "n"}
PressTwiceKey == \E k \in TwiceKeys : Press(k, MaxTwicePresses)
TypeTwiceText ==
    \E v \in Inputs(m) \cap {<<"O","p","s">>, <<"~">>} : Type(v, MaxTwicePresses)

\* A user who adds the folder Ops and filters the tree.
TreeKeys == {"A", "/", "esc", "enter"}
PressTreeKey == \E k \in TreeKeys : Press(k, MaxTreePresses)
TypeTreeText ==
    \E v \in Inputs(m) \cap {<<"O","p","s">>, <<"~">>, <<"O","N","E">>, <<"z">>} :
        Type(v, MaxTreePresses)

\* A user who moves through the tree and enters and leaves the preview.
PreviewKeys == {"down", "v", "esc", "r"}
PressPreviewKey == \E k \in PreviewKeys : Press(k, MaxPreviewPresses)

\* The messages of one type that wait.
Waiting(type) == {x \in DOMAIN msgs : x.type = type}

\* The runtime hands the waiting message x to Update.
Deliver(x) == Step(x, msgs (-) SetToBag({x}), FALSE, 0)

DeliverSessionsLoaded == \E x \in Waiting("sessionsLoaded") : Deliver(x)
DeliverActionResult == \E x \in Waiting("actionResult") : Deliver(x)
DeliverAttached == \E x \in Waiting("attached") : Deliver(x)
DeliverPaneCaptured == \E x \in Waiting("paneCaptured") : Deliver(x)
DeliverPreviewTick == \E x \in Waiting("previewTick") : Deliver(x)
DeliverFolderAdded == \E x \in Waiting("folderAdded") : Deliver(x)
DeliverClearStatus == \E x \in Waiting("clearStatus") : Deliver(x)
DeliverTick == \E x \in Waiting("tick") : Deliver(x)

(***************************************************************************)
(* The commands, run by the runtime against tmux and the config file.      *)
(***************************************************************************)
\* An error of the gateway, named by the tmux command that failed.
Err(what) == Text(what, NoStr)

\* tmux list-sessions: the sessions by descending name.
RECURSIVE ListSessions(_)
ListSessions(names) ==
    IF names = {} THEN <<>>
    ELSE LET top == CHOOSE n \in names : \A o \in names : o = n \/ StrLess(o, n)
         IN <<Session(top)>> \o ListSessions(names \ {top})

\* tmux list-panes after the sessions have become sessionsAfter: the panes
\* of a killed session are gone, those of a renamed session bear its new
\* name, a created session has one pane.
PanesAfter(sessionsAfter) ==
    LET gone == backend \ sessionsAfter
        new == sessionsAfter \ backend
        Moved(p) == IF p.SessionName \in gone /\ new # {}
                    THEN [p EXCEPT !.SessionName = CHOOSE n \in new : TRUE] ELSE p
        Left(p) == p.SessionName \notin gone \/ new # {}
        kept == SelectSeq(panes, Left)
        moved == [i \in 1..Len(kept) |-> Moved(kept[i])]
    IN IF gone = {} /\ new # {}
       THEN moved \o <<FreshPane(CHOOSE n \in new : TRUE)>>
       ELSE moved

\* stripTitleBranding, for the prefixes that occur here.
stripTitleBranding(title) ==
    IF HasPrefix(title, <<"*"," ">>) THEN TrimPrefix(title, <<"*"," ">>) ELSE title

ZeroPaneState ==
    [Command |-> NoStr, PaneTitle |-> NoStr, CurrentPath |-> NoStr,
     BellFlag |-> FALSE, ActivityFlag |-> FALSE, SilenceFlag |-> FALSE]

\* One iteration of the loop of ActivePaneStates: state is the entry of the
\* pane's session, or the zero value when there is none (exists is FALSE).
MergedPane(p, state) ==
    LET active == p.WindowActive /\ p.PaneActive
    IN [Command |-> IF active THEN p.Command ELSE state.Command,
        PaneTitle |-> IF active THEN stripTitleBranding(TrimSpace(p.PaneTitle))
                      ELSE state.PaneTitle,
        CurrentPath |-> IF active THEN p.CurrentPath ELSE state.CurrentPath,
        BellFlag |-> state.BellFlag \/ p.BellFlag,
        ActivityFlag |-> state.ActivityFlag \/ p.ActivityFlag,
        SilenceFlag |-> state.SilenceFlag \/ p.SilenceFlag]

RECURSIVE MergePanes(_, _)
MergePanes(list, result) ==
    IF list = <<>> THEN result
    ELSE LET p == Head(list)
             exists == p.SessionName \in DOMAIN result
             state == MergedPane(p, IF exists THEN result[p.SessionName] ELSE ZeroPaneState)
         IN IF (p.WindowActive /\ p.PaneActive) \/ exists
            THEN MergePanes(Tail(list),
                            [n \in DOMAIN result \cup {p.SessionName} |->
                                IF n = p.SessionName THEN state ELSE result[n]])
            ELSE MergePanes(Tail(list), result)

ActivePaneStates(list) == MergePanes(list, <<>>)

\* The enrichment loop of loadSessionsCmd.
Enriched(sessions, states) ==
    [i \in 1..Len(sessions) |->
        IF sessions[i].Name \notin DOMAIN states THEN sessions[i]
        ELSE [sessions[i] EXCEPT
                 !.CurrentCommand = states[sessions[i].Name].Command,
                 !.PaneTitle = states[sessions[i].Name].PaneTitle,
                 !.CurrentPath = states[sessions[i].Name].CurrentPath,
                 !.AlertsBell = @ \/ states[sessions[i].Name].BellFlag,
                 !.AlertsActivity = @ \/ states[sessions[i].Name].ActivityFlag,
                 !.AlertsSilence = @ \/ states[sessions[i].Name].SilenceFlag]]

\* A faulty grouping: a session that no namespace prefixes gets the index
\* after the last folder.
FolderOfPastEnd(folders, name) ==
    LET hits == {i \in 1..Len(folders) : HasPrefix(name, folders[i].Namespace \o <<"/">>)}
    IN IF hits = {} THEN Len(folders) ELSE (CHOOSE i \in hits : \A j \in hits : i <= j) - 1

\* A faulty grouping: a session that no namespace prefixes joins folder 0.
FolderOfOrFirst(folders, name) ==
    LET hits == {i \in 1..Len(folders) : HasPrefix(name, folders[i].Namespace \o <<"/">>)}
    IN IF hits = {} THEN 0 ELSE (CHOOSE i \in hits : \A j \in hits : i <= j) - 1

\* The index of the first folder whose namespace prefixes the name, or -1.
FolderOf(folders, name) ==
    LET hits == {i \in 1..Len(folders) : HasPrefix(name, folders[i].Namespace \o <<"/">>)}
    IN IF hits = {} THEN -1 ELSE (CHOOSE i \in hits : \A j \in hits : i <= j) - 1

\* The grouping loop of loadSessionsCmd.
Grouped(folders, sessions) ==
    LET keys == {FolderOf(folders, sessions[i].Name) : i \in 1..Len(sessions)} \ {-1}
        Of(idx) == LET In(s) == FolderOf(folders, s.Name) = idx IN SelectSeq(sessions, In)
    IN [idx \in keys |-> Of(idx)]

SessionsLoadedMsg(sessions, err) == [type |-> "sessionsLoaded", sessions |-> sessions, err |-> err]
ActionResultMsg(status, err, attachTarget) ==
    [type |-> "actionResult", status |-> status, err |-> err, attachTarget |-> attachTarget]
AttachedMsg(err) == [type |-> "attached", err |-> err]
FolderAddedMsg(folder, err) == [type |-> "folderAdded", folder |-> folder, err |-> err]
PaneCapturedMsg(c, content, err) ==
    [type |-> "paneCaptured", target |-> c.target, content |-> content, err |-> err,
     seq |-> c.seq, entry |-> c.entry]

\* A command runs: it leaves the bag, acts on tmux, and its message waits.
Ran(c, result, sessionsAfter) ==
    /\ running
    /\ cmds' = cmds (-) SetToBag({c})
    /\ msgs' = msgs (+) SetToBag({result})
    /\ backend' = sessionsAfter
    /\ panes' = IF sessionsAfter = backend THEN panes ELSE PanesAfter(sessionsAfter)
    /\ UNCHANGED <<m, running, presses, frame>>

Issued(op) == {c \in DOMAIN cmds : c.op = op}

\* The sessions of tmux as the fetch has them before it groups them: with
\* the fields of the panes when the panes were listed.
FetchedSessions(paneErr) ==
    CHOOSE sessions \in
        {IF paneErr = NoText THEN Enriched(listed, states) ELSE listed :
            listed \in {ListSessions(backend)}, states \in {ActivePaneStates(panes)}} : TRUE

\* The result of a fetch that listed the sessions.
GroupedMsg(folders, paneErr) ==
    CHOOSE msg \in {SessionsLoadedMsg(Grouped(folders, sessions), NoText) :
                       sessions \in {FetchedSessions(paneErr)}} : TRUE

\* A faulty fetch: a failure of the pane listing fails the fetch.
FetchedStrict(folders, listErr, paneErr) ==
    IF Len(folders) = 0 THEN SessionsLoadedMsg(<<>>, NoText)
    ELSE IF listErr # NoText THEN SessionsLoadedMsg(<<>>, listErr)
    ELSE IF paneErr # NoText THEN SessionsLoadedMsg(<<>>, paneErr)
    ELSE GroupedMsg(folders, NoText)

\* The closure of loadSessionsCmd: what it returns for the folders it closed
\* over, listErr being the error of ListSessions and paneErr that of ListPanes.
Fetched(folders, listErr, paneErr) ==
    IF Len(folders) = 0 THEN SessionsLoadedMsg(<<>>, NoText)
    ELSE IF listErr # NoText THEN SessionsLoadedMsg(<<>>, listErr)
    ELSE GroupedMsg(folders, paneErr)

\* tmux answers the fetch c: the sessions, grouped by folder.
LoadSessionsOk(c) == Ran(c, Fetched(c.folders, NoText, NoText), backend)

\* tmux lists the sessions of the fetch c and fails to list the panes.
LoadSessionsNoPanes(c) ==
    /\ Len(c.folders) # 0
    /\ Ran(c, Fetched(c.folders, NoText, Err("tmux list-panes")), backend)

\* tmux fails the fetch c.
LoadSessionsErr(c) ==
    /\ Len(c.folders) # 0
    /\ Ran(c, Fetched(c.folders, Err("tmux list-sessions"), NoText), backend)

RunLoadSessions ==
    \E c \in Issued("loadSessions") :
        LoadSessionsOk(c) \/ LoadSessionsNoPanes(c) \/ LoadSessionsErr(c)

\* A fetch against a tmux that answers.
RunLoadSessionsOk == \E c \in Issued("loadSessions") : LoadSessionsOk(c)

\* A call of the gateway as a command made it, with the error it returned.
NewSessionCall(name, cwd, err) == [call |-> "NewSession", name |-> name, cwd |-> cwd, err |-> err]
SendKeysCall(target, command, err) ==
    [call |-> "SendKeys", target |-> target, command |-> command, err |-> err]

\* What the closure of newSessionCmd returns after the calls it made.  calls
\* records them in their order; no code reads it.
Called(calls, msg) ==
    [type |-> msg.type, status |-> msg.status, err |-> msg.err,
     attachTarget |-> msg.attachTarget, calls |-> calls]

\* A faulty closure: the error of SendKeys is not looked at.
newSessionClosureUnchecked(c, createErr, sendErr) ==
    IF createErr # NoText
    THEN Called(<<NewSessionCall(c.fullName, c.path, createErr)>>,
                ActionResultMsg(NoText, createErr, NoStr))
    ELSE Called(<<NewSessionCall(c.fullName, c.path, NoText)>>
                    \o (IF c.defaultCommand # NoStr
                        THEN <<SendKeysCall(c.fullName, c.defaultCommand, sendErr)>>
                        ELSE <<>>),
                ActionResultMsg(Text("created ", c.fullName), NoText, c.fullName))

\* The closure of newSessionCmd, createErr being the error of NewSession and
\* sendErr that of SendKeys when it is called.
newSessionClosure(c, createErr, sendErr) ==
    IF createErr # NoText
    THEN Called(<<NewSessionCall(c.fullName, c.path, createErr)>>,
                ActionResultMsg(NoText, createErr, NoStr))
    ELSE IF c.defaultCommand # NoStr /\ sendErr # NoText
    THEN Called(<<NewSessionCall(c.fullName, c.path, NoText),
                  SendKeysCall(c.fullName, c.defaultCommand, sendErr)>>,
                ActionResultMsg(NoText, sendErr, NoStr))
    ELSE Called(<<NewSessionCall(c.fullName, c.path, NoText)>>
                    \o (IF c.defaultCommand # NoStr
                        THEN <<SendKeysCall(c.fullName, c.defaultCommand, NoText)>>
                        ELSE <<>>),
                ActionResultMsg(Text("created ", c.fullName), NoText, c.fullName))

\* tmux refuses the session, or creates it and then takes or refuses the keys.
RunNewSession ==
    \E c \in Issued("newSession") :
        \/ Ran(c, newSessionClosure(c, Err("tmux new-session"), NoText), backend)
        \/ /\ c.fullName \notin backend
           /\ \/ Ran(c, newSessionClosure(c, NoText, NoText), backend \cup {c.fullName})
              \/ /\ c.defaultCommand # NoStr
                 /\ Ran(c, newSessionClosure(c, NoText, Err("tmux send-keys")),
                        backend \cup {c.fullName})

RunRenameSession ==
    \E c \in Issued("renameSession") :
        \/ Ran(c, ActionResultMsg(NoText, Err("tmux rename-session"), NoStr), backend)
        \/ /\ c.oldName \in backend
           /\ c.newName \notin backend
           /\ Ran(c, ActionResultMsg(Text("renamed to ", c.newName), NoText, NoStr),
                  (backend \ {c.oldName}) \cup {c.newName})

RunKillSession ==
    \E c \in Issued("killSession") :
        \/ Ran(c, ActionResultMsg(NoText, Err("tmux kill-session"), NoStr), backend)
        \/ /\ c.name \in backend
           /\ Ran(c, ActionResultMsg(Text("killed ", c.name), NoText, NoStr),
                  backend \ {c.name})

RunSendCommand ==
    \E c \in Issued("sendCommand") :
        \/ Ran(c, ActionResultMsg(NoText, Err("tmux send-keys"), NoStr), backend)
        \/ /\ c.name \in backend
           /\ Ran(c, ActionResultMsg(Text("sent command to ", c.name), NoText, NoStr), backend)

RunAddFolder ==
    \E c \in Issued("addFolder") :
        \/ Ran(c, FolderAddedMsg(EmptyFolder, Err("open config")), backend)
        \/ Ran(c, FolderAddedMsg(c.folder, NoText), backend)

\* tmux resolves an empty target to a session of its own choosing.
RunCapturePane ==
    \E c \in Issued("capturePane") :
        \/ Ran(c, PaneCapturedMsg(c, NoText, Err("tmux capture-pane")), backend)
        \/ /\ c.target \in backend \/ (c.target = NoStr /\ backend # {})
           /\ Ran(c, PaneCapturedMsg(c, Text("pane of ", c.target), NoText), backend)

RunAttach ==
    \E c \in Issued("attach") :
        \/ Ran(c, AttachedMsg(Err("tmux attach")), backend)
        \/ c.name \in backend /\ Ran(c, AttachedMsg(NoText), backend)

RunOpenEditor ==
    \E c \in Issued("openEditor") :
        \/ Ran(c, ActionResultMsg(Text("editor closed", NoStr), Err("sh -lc"), NoStr), backend)
        \/ Ran(c, ActionResultMsg(Text("editor closed", NoStr), NoText, NoStr), backend)

(***************************************************************************)
(* The config file: configfile.AppendFolder writes it, configfile.Load      *)
(* reads it.  A file is its text, a sequence of characters.                 *)
(***************************************************************************)
NL == "\n"
Quote == "\""
Backslash == "\\"

\* fmt's %q for the characters that occur here: the quote and the backslash
\* are escaped.
RECURSIVE Escaped(_)
Escaped(s) ==
    IF s = <<>> THEN <<>>
    ELSE (IF Head(s) \in {Quote, Backslash} THEN <<Backslash, Head(s)>> ELSE <<Head(s)>>)
         \o Escaped(Tail(s))

Quoted(s) == <<Quote>> \o Escaped(s) \o <<Quote>>

KeyName == <<"n","a","m","e">>
KeyPath == <<"p","a","t","h">>
KeyDefaultCommand == <<"d","e","f","a","u","l","t","_","c","o","m","m","a","n","d">>
KeyEditorCommand == <<"e","d","i","t","o","r","_","c","o","m","m","a","n","d">>
FolderHeader == <<"[","[","f","o","l","d","e","r","]","]">>

\* One line `key = "value"` with its newline.
KeyLine(key, value) == key \o <<" ","="," ">> \o Quoted(value) \o <<NL>>

\* The block AppendFolder formats for a folder.
FolderBlock(f) ==
    <<NL>> \o FolderHeader \o <<NL>> \o KeyLine(KeyName, f.Name) \o KeyLine(KeyPath, f.Path)
    \o (IF f.DefaultCommand # NoStr THEN KeyLine(KeyDefaultCommand, f.DefaultCommand)
        ELSE <<>>)

\* AppendFolder on a file that opens: the file after the write.
AppendFolder(content, f) == content \o FolderBlock(f)

\* The lines of a text: what stands between one newline and the next, and
\* what follows the last newline when the text does not end with one.
SplitLines(s) ==
    LET ends == {i \in 1..Len(s) : s[i] = NL}
                \cup (IF s # <<>> /\ s[Len(s)] # NL THEN {Len(s) + 1} ELSE {})
        EndOf(k) == CHOOSE e \in ends : Cardinality({d \in ends : d < e}) = k - 1
    IN [k \in 1..Cardinality(ends) |->
           SubSeq(s, IF k = 1 THEN 1 ELSE EndOf(k - 1) + 1, EndOf(k) - 1)]

\* The text of a TOML basic string without its quotes.
RECURSIVE Unescaped(_)
Unescaped(s) ==
    IF s = <<>> THEN <<>>
    ELSE IF Head(s) = Backslash /\ Len(s) >= 2 THEN <<s[2]>> \o Unescaped(Tail(Tail(s)))
    ELSE <<Head(s)>> \o Unescaped(Tail(s))

\* Where ` = ` starts in a line, or 0.
EqualsAt(line) ==
    LET at == {i \in 1..(Len(line) - 2) : SubSeq(line, i, i + 2) = <<" ","="," ">>}
    IN IF at = {} THEN 0 ELSE CHOOSE i \in at : \A j \in at : i <= j

\* One line as the TOML decoder takes it: blank or comment, the header of
\* a folder table, or a key with a basic string.
ParsedLine(line) ==
    LET text == TrimSpace(line)
    IN IF text = <<>> \/ Head(text) = "#" THEN [kind |-> "blank"]
       ELSE IF text = FolderHeader THEN [kind |-> "folder"]
       ELSE IF EqualsAt(text) = 0 THEN [kind |-> "bad"]
       ELSE LET key == SubSeq(text, 1, EqualsAt(text) - 1)
                raw == SubSeq(text, EqualsAt(text) + 3, Len(text))
            IN IF Len(raw) < 2 \/ Head(raw) # Quote \/ raw[Len(raw)] # Quote
               THEN [kind |-> "bad"]
               ELSE [kind |-> "key", key |-> key,
                     value |-> Unescaped(SubSeq(raw, 2, Len(raw) - 1))]

\* A key of a folder table sets the field of config.Folder that bears its tag.
WithKey(f, key, value) ==
    IF key = KeyName THEN [f EXCEPT !.Name = value]
    ELSE IF key = KeyPath THEN [f EXCEPT !.Path = value]
    ELSE IF key = KeyDefaultCommand THEN [f EXCEPT !.DefaultCommand = value]
    ELSE IF key = KeyEditorCommand THEN [f EXCEPT !.EditorCommand = value]
    ELSE f

\* toml.DecodeFile into config.Config: the folders of the file, or an error.
RECURSIVE Decoded(_, _)
Decoded(lines, folders) ==
    IF lines = <<>> THEN [err |-> NoText, folders |-> folders]
    ELSE LET p == ParsedLine(Head(lines))
         IN IF p.kind = "bad" THEN [err |-> Text("decode config", NoStr), folders |-> <<>>]
            ELSE IF p.kind = "folder" THEN Decoded(Tail(lines), Append(folders, EmptyFolder))
            ELSE IF p.kind = "key" /\ folders # <<>>
            THEN Decoded(Tail(lines),
                         [folders EXCEPT ![Len(folders)] = WithKey(@, p.key, p.value)])
            ELSE Decoded(Tail(lines), folders)

\* Config.Normalize: the fields trimmed, the path made absolute, the
\* namespace derived; an error for an empty name or path or a namespace that
\* a folder before it has.
Normalized(folders) ==
    LET Clean(f) ==
            [Name |-> TrimSpace(f.Name), Path |-> Abs(ExpandHome(TrimSpace(f.Path))),
             DefaultCommand |-> TrimSpace(f.DefaultCommand),
             EditorCommand |-> TrimSpace(f.EditorCommand),
             Namespace |-> Slug(TrimSpace(f.Name))]
        clean == [i \in 1..Len(folders) |-> Clean(folders[i])]
    IN IF \E i \in 1..Len(folders) :
              \/ TrimSpace(folders[i].Name) = NoStr
              \/ TrimSpace(folders[i].Path) = NoStr
              \/ clean[i].Namespace = NoStr
              \/ \E j \in 1..(i - 1) : clean[j].Namespace = clean[i].Namespace
       THEN [err |-> Text("normalize config", NoStr), folders |-> <<>>]
       ELSE [err |-> NoText, folders |-> clean]

\* configfile.Load on a file with this text.
Load(content) ==
    LET d == Decoded(SplitLines(content), <<>>)
    IN IF d.err # NoText THEN d ELSE Normalized(d.folders)

(***************************************************************************)
(* The specification.                                                      *)
(***************************************************************************)
\* No function is called by itself.
NoFrame == <<>>

\* A call that has not returned, and the call once it has.
Calling(fn, args) == [fn |-> fn, args |-> args, returned |-> FALSE, result |-> <<>>]
ReturnedFrom(f, result) == [f EXCEPT !.returned = TRUE, !.result = result]

\* Model.Init: the first fetch and the first tick.
Init ==
    /\ m = NewModel
    /\ cmds = SetToBag({loadSessionsCmd(NewModel)})
    /\ msgs = SetToBag({TimerMsg(tickCmd)})
    /\ backend = InitBackend
    /\ panes = InitPanes
    /\ running = TRUE
    /\ presses = 0
    /\ frame = NoFrame

\* The user has every key; folders are not added.
Next ==
    \/ PressKey
    \/ TypeText
    \/ DeliverSessionsLoaded
    \/ DeliverActionResult
    \/ DeliverAttached
    \/ DeliverPaneCaptured
    \/ DeliverPreviewTick
    \/ DeliverClearStatus
    \/ DeliverTick
    \/ RunLoadSessions
    \/ RunNewSession
    \/ RunRenameSession
    \/ RunKillSession
    \/ RunSendCommand
    \/ RunCapturePane
    \/ RunAttach
    \/ RunOpenEditor

Spec == Init /\ [][Next]_vars

\* The user works in the prompts.
FlowNext ==
    \/ PressFlowKey
    \/ TypeFlowText
    \/ DeliverSessionsLoaded
    \/ DeliverActionResult
    \/ DeliverAttached
    \/ DeliverClearStatus
    \/ DeliverTick
    \/ RunLoadSessions
    \/ RunNewSession
    \/ RunRenameSession
    \/ RunSendCommand
    \/ RunAttach

FlowSpec == Init /\ [][FlowNext]_vars

\* The user adds folders.
AddNext ==
    \/ PressAddKey
    \/ TypeAddText
    \/ DeliverSessionsLoaded
    \/ DeliverFolderAdded
    \/ DeliverClearStatus
    \/ DeliverTick
    \/ RunLoadSessions
    \/ RunAddFolder

AddSpec == Init /\ [][AddNext]_vars

\* The user kills sessions and filters; tmux answers every fetch; every
\* command that is issued runs and every message that waits is delivered.
FairNext ==
    \/ PressFairKey
    \/ TypeFairText
    \/ DeliverSessionsLoaded
    \/ DeliverActionResult
    \/ DeliverClearStatus
    \/ DeliverTick
    \/ RunLoadSessionsOk
    \/ RunKillSession

FairSpec ==
    /\ Init
    /\ [][FairNext]_vars
    /\ WF_vars(DeliverSessionsLoaded)
    /\ WF_vars(DeliverActionResult)
    /\ WF_vars(DeliverClearStatus)
    /\ WF_vars(DeliverTick)
    /\ WF_vars(RunLoadSessionsOk)
    /\ WF_vars(RunKillSession)

\* The user adds a folder twice and creates sessions; the timers are not
\* looked at.
TwiceNext ==
    \/ PressTwiceKey
    \/ TypeTwiceText
    \/ DeliverSessionsLoaded
    \/ DeliverFolderAdded
    \/ RunLoadSessions
    \/ RunAddFolder

TwiceSpec == Init /\ [][TwiceNext]_vars

\* The user adds a folder and filters; fetches come from Init, from the
\* refresh tick and from each added folder.  The status timer is left out.
TreeNext ==
    \/ PressTreeKey
    \/ TypeTreeText
    \/ DeliverSessionsLoaded
    \/ DeliverFolderAdded
    \/ DeliverTick
    \/ RunLoadSessions
    \/ RunAddFolder

TreeSpec == Init /\ [][TreeNext]_vars

\* The user previews sessions; tmux answers the fetch and the captures.
PreviewNext ==
    \/ PressPreviewKey
    \/ DeliverSessionsLoaded
    \/ DeliverPaneCaptured
    \/ DeliverPreviewTick
    \/ RunLoadSessionsOk
    \/ RunCapturePane

PreviewSpec == Init /\ [][PreviewNext]_vars

\* The program at rest while a function is called by itself.
AtRest ==
    /\ m = NewModel
    /\ cmds = EmptyBag
    /\ msgs = EmptyBag
    /\ backend = {}
    /\ panes = <<>>
    /\ running = TRUE
    /\ presses = 0

Resting == UNCHANGED <<m, cmds, msgs, backend, panes, running, presses>>

\* windowAround over the selections, row counts and pane heights.
WindowInit ==
    /\ AtRest
    /\ \E total \in 0..MaxTotal, maxItems \in 1..MaxItems :
           \E selected \in 0..(IF total = 0 THEN 0 ELSE total - 1) :
               frame = Calling("windowAround", <<selected, total, maxItems>>)

CallWindowAround ==
    /\ frame # NoFrame /\ frame.fn = "windowAround" /\ ~frame.returned
    /\ frame' = ReturnedFrom(frame, windowAround(frame.args[1], frame.args[2], frame.args[3]))
    /\ Resting

WindowNext == CallWindowAround

WindowSpec == WindowInit /\ [][WindowNext]_vars

\* sanitizeLeaf over the texts of a few characters: a letter, a capital, a
\* digit, the hyphen, the slash, the space and another sign.
LeafChars == {"a", "B", "1", "-", "/", " ", "_"}

LeafTexts == UNION {[1..n -> LeafChars] : n \in 0..MaxLeafLen}

SanitizeInit ==
    /\ AtRest
    /\ \E in \in LeafTexts : frame = Calling("sanitizeLeaf", <<in>>)

CallSanitizeLeaf ==
    /\ frame # NoFrame /\ frame.fn = "sanitizeLeaf" /\ ~frame.returned
    /\ frame' = ReturnedFrom(frame, sanitizeLeaf(frame.args[1]))
    /\ Resting

SanitizeNext == CallSanitizeLeaf

SanitizeSpec == SanitizeInit /\ [][SanitizeNext]_vars

\* AppendFolder over config files and folders: the file is empty, holds
\* the editor command, a folder, or the template; the folder is one that the
\* add-folder flow has put together.
FileTexts ==
    {<<>>,
     KeyLine(KeyEditorCommand, <<"v","i">>),
     KeyLine(KeyEditorCommand, <<"v","i">>) \o <<NL>> \o FolderHeader \o <<NL>>
         \o KeyLine(KeyName, <<"w","e","b">>) \o KeyLine(KeyPath, DirWeb)
         \o KeyLine(KeyEditorCommand, <<"e","d">>),
     <<"#"," ","[","[","f","o","l","d","e","r","]","]",NL,"#"," ","n","a","m","e"," ","="," ","\"","x","\"">>}

AddedFolders ==
    {[Name |-> name, Path |-> path, DefaultCommand |-> command, EditorCommand |-> editor,
      Namespace |-> Slug(name)] :
        name \in {<<"O","p","s">>, <<"M","y"," ","A","P","I">>},
        path \in {Home, DirApi},
        command \in {NoStr, CmdMake, <<"s","h"," ","-","c"," ","\"","m","k","\"">>},
        editor \in {NoStr, EnvEditor, <<"z","e","d"," ",".">>}}

AppendInit ==
    /\ AtRest
    /\ \E content \in FileTexts, f \in AddedFolders :
           frame = Calling("AppendFolder", <<content, f>>)

CallAppendFolder ==
    /\ frame # NoFrame /\ frame.fn = "AppendFolder" /\ ~frame.returned
    /\ frame' = ReturnedFrom(frame, AppendFolder(frame.args[1], frame.args[2]))
    /\ Resting

AppendNext == CallAppendFolder

AppendSpec == AppendInit /\ [][AppendNext]_vars

\* rebuildRows over registries, session maps and filters: the model holds a
\* registry and a filter, and a fetch result with the session map waits.
OpsFolder ==
    [Name |-> <<"O","p","s"," ","T","e","a","m">>, Path |-> Home, DefaultCommand |-> NoStr,
     EditorCommand |-> NoStr, Namespace |-> <<"o","p","s","-","t","e","a","m">>]

Registries ==
    {<<>>, InitFolders, <<InitFolders[2], InitFolders[1]>>,
     <<InitFolders[1], OpsFolder, InitFolders[2]>>}

\* m.filterQuery is the trimmed text of the filter prompt.
Filters ==
    {NoStr, <<"O","N","E">>, <<"/","w">>, <<"a","t","t">>, <<"S"," ","T">>, <<"z">>}

Leaves == {<<"o","n","e">>, <<"t","w","o">>}

\* The sessions of one folder as a fetch may list them: any of them, in any order.
SessionLists(folder) ==
    LET names == {folder.Namespace \o <<"/">> \o leaf : leaf \in Leaves}
    IN {<<>>} \cup {<<Session(a)>> : a \in names}
              \cup {<<Session(p[1]), Session(p[2])>> :
                        p \in {q \in names \X names : q[1] # q[2]}}

\* The maps a fetch may deliver for a registry: no key for an empty list.
SessionMaps(folders) ==
    LET all == [0..(Len(folders) - 1) -> UNION {SessionLists(folders[i]) : i \in 1..Len(folders)}]
        own == {f \in all : \A k \in DOMAIN f : f[k] \in SessionLists(folders[k + 1])}
    IN {[k \in {j \in DOMAIN f : f[j] # <<>>} |-> f[k]] : f \in own}

ModelWith(folders, query) ==
    rebuildRows([NewModel EXCEPT !.cfgFolders = folders, !.filterQuery = query])

RowsInit ==
    /\ \E folders \in Registries, query \in Filters :
           /\ m = ModelWith(folders, query)
           /\ \E sessions \in SessionMaps(folders) :
                  msgs = SetToBag({SessionsLoadedMsg(sessions, NoText)})
    /\ cmds = EmptyBag
    /\ backend = {}
    /\ panes = <<>>
    /\ running = TRUE
    /\ presses = 0
    /\ frame = NoFrame

RowsNext == DeliverSessionsLoaded

RowsSpec == RowsInit /\ [][RowsNext]_vars

\* loadSessionsCmd over registries, sessions and pane records: tmux holds
\* any of the session sets and lists any of the pane records in any order.
Backends == {InitBackend, InitBackend \cup {ApiTwo, ApixY}, {OtherSkip}, {}}

PaneRecords == {ApiBackground, ApiActive, WebBackground, WebActive}

PaneLists ==
    {list \in UNION {[1..n -> PaneRecords] : n \in 0..MaxPanes} :
        \A i, j \in DOMAIN list : i # j => list[i] # list[j]}

FetchInit ==
    /\ \E folders \in Registries :
           /\ m = ModelWith(folders, NoStr)
           /\ cmds = SetToBag({loadSessionsCmd(ModelWith(folders, NoStr))})
    /\ msgs = SetToBag({TimerMsg(tickCmd)})
    /\ backend \in Backends
    /\ panes \in PaneLists
    /\ running = TRUE
    /\ presses = 0
    /\ frame = NoFrame

FetchNext ==
    \/ RunLoadSessions
    \/ DeliverSessionsLoaded
    \/ DeliverTick

FetchSpec == FetchInit /\ [][FetchNext]_vars

(***************************************************************************)
(* The properties.                                                         *)
(***************************************************************************)
\* How many commands of one kind wait to run.
Outstanding(cs, op) ==
    LET One(c) == IF c.op = op THEN 1 ELSE 0 IN Sum(cs, One)

PromptOpen == m.promptMode # promptNone
KillPending == m.confirmKillTarget # NoStr
PreviewActive == m.detailMode = detailPreview

\* C1: whatever rebuilt the tree and moved the selection, the selection index
\* is within the rows when there are rows and is 0 when there are none.
C1_SelectionInRange ==
    IF Len(m.rows) = 0 THEN m.selected = 0
    ELSE m.selected >= 0 /\ m.selected <= Len(m.rows) - 1

\* C2: in every reachable state at most one of prompt open, kill
\* confirmation pending and preview active holds.
C2_AtMostOneModal ==
    /\ ~(PromptOpen /\ KillPending)
    /\ ~(PromptOpen /\ PreviewActive)
    /\ ~(KillPending /\ PreviewActive)

\* A kill confirmation is pending for a session that was previewed before.
C2_KillPendingAfterPreview ==
    KillPending /\ ~PromptOpen /\ ~PreviewActive /\ m.previewEntry > 0

\* The action results that come from a create, a rename, a kill or a send.
FromMutation(x) ==
    \/ x.err # NoText /\ x.err[1] \in {"tmux new-session", "tmux send-keys",
                                       "tmux rename-session", "tmux kill-session"}
    \/ x.status # NoText /\ x.status[1] \in {"created ", "renamed to ", "killed ",
                                             "sent command to "}

\* C3: the delivery of the result of a mutating command, with success or
\* error and in whatever mode, issues a session fetch in that step.
C3_ResultIssuesFetch ==
    [][\A x \in Waiting("actionResult") :
          FromMutation(x) /\ Deliver(x) =>
              Outstanding(cmds', "loadSessions") > Outstanding(cmds, "loadSessions")]_vars

\* C4: every delivery of the refresh tick, in every state, schedules the
\* next tick and issues a session fetch.
C4_TickReschedules ==
    [][\A x \in Waiting("tick") :
          Deliver(x) =>
              /\ \E y \in DOMAIN msgs' : y.type = "tick"
              /\ Outstanding(cmds', "loadSessions") > Outstanding(cmds, "loadSessions")]_vars

\* The session map holds what tmux holds, grouped by the folders' namespaces.
InSync ==
    \E truth \in {Fetched(m.cfgFolders, NoText, NoText).sessions} :
        /\ DOMAIN m.sessions = DOMAIN truth
        /\ \A k \in DOMAIN truth : m.sessions[k] = truth[k]

\* C5: when every command runs and every message is delivered, the session
\* map comes to equal the namespace grouping of tmux's sessions, and stays
\* so; stated for the runs in which the user ends in Navigate mode.
C5_Converges == <>[](~PromptOpen /\ ~KillPending) => <>[]InSync

\* What the preview shows of a capture.
PreviewShown(mm) == <<mm.previewContent, mm.previewErr, mm.previewLoading>>

C7_StaleClearKeepsNewer ==
    [][\A x \in Waiting("clearStatus") :
          m.statusMsg # x.forStatus /\ Deliver(x) => m'.statusMsg = m.statusMsg]_vars

\* The submissions that fail local validation: an empty required value, a
\* folder name without a namespace of its own, a path that is no directory.
FailsValidation ==
    \E value \in {TrimSpace(m.promptValue)} :
        \/ /\ m.promptMode \in {promptNewSession, promptRenameSession, promptRunCommand}
           /\ value = NoStr
        \/ /\ m.promptMode = promptAddFolder /\ m.promptStep = 0
           /\ \/ value = NoStr
              \/ Slug(value) = NoStr
              \/ \E i \in 1..Len(m.cfgFolders) : m.cfgFolders[i].Namespace = Slug(value)
        \/ /\ m.promptMode = promptAddFolder /\ m.promptStep = 1
           /\ \/ value = NoStr
              \/ ~StatExists(Abs(ExpandHome(value)))
              \/ ~StatDir(Abs(ExpandHome(value)))

\* C8, as amended: a submission that fails local validation closes the
\* prompt, keeps the step and everything else of the model, records the
\* error and issues no command.
C8_FailureClosesPrompt ==
    FailsValidation =>
        \E r \in {Update(m, KeyMsg("enter"), FALSE)} :
            /\ r.m.errMsg # NoText
            /\ r.m = [m EXCEPT !.promptMode = promptNone, !.promptValue = NoStr,
                                !.errMsg = r.m.errMsg]
            /\ r.cmds = {}

\* C8, as stated: a submission that fails local validation leaves the prompt
\* open in its mode and at its step, records the error and issues no command.
C8_FailureKeepsPrompt ==
    FailsValidation =>
        \E r \in {Update(m, KeyMsg("enter"), FALSE)} :
            /\ r.m.promptMode = m.promptMode
            /\ r.m.promptStep = m.promptStep
            /\ r.m.errMsg # NoText
            /\ r.cmds = {}

\* The add-folder flow was left at its path step by a path that is a file.
C8_PathRejected ==
    /\ ~PromptOpen
    /\ m.promptStep = 1
    /\ m.errMsg = Text("path is not a directory", NoStr)
    /\ Outstanding(cmds, "addFolder") = 0

\* C9: the kill key on a selected session row makes that row's full name
\* the target; while the target is set nothing replaces it; y or enter then
\* clears it and issues one kill, of that name.
C9_KillTargetsSelectedName ==
    [][/\ (/\ ~PromptOpen /\ ~KillPending /\ ~PreviewActive
           /\ selectedSessionRowOk(m)
           /\ Step(KeyMsg("K"), msgs, FALSE, 1))
          => m'.confirmKillTarget = m.rows[m.selected + 1].sessionName /\ cmds' = cmds
       /\ KillPending => m'.confirmKillTarget \in {m.confirmKillTarget, NoStr}
       /\ \A k \in {"y", "Y", "enter"} :
              (~PromptOpen /\ KillPending /\ Step(KeyMsg(k), msgs, FALSE, 1))
              => /\ m'.confirmKillTarget = NoStr
                 /\ cmds' = cmds (+) SetToBag({[op |-> "killSession",
                                                name |-> m.confirmKillTarget]})]_vars

\* The kill of api/one was confirmed and waits to run.
C9_KillIssued ==
    /\ ~KillPending
    /\ \E c \in DOMAIN cmds : c.op = "killSession" /\ c.name = ApiOne /\ cmds[c] = 1

C11_DistinctNamespaces ==
    \A i, j \in 1..Len(m.cfgFolders) :
        i # j => m.cfgFolders[i].Namespace # m.cfgFolders[j].Namespace

\* C12: the delivery of an append-folder result that carries an error leaves
\* the registry, the rows and the selection as they are; the delivery of one
\* that carries success appends its folder to the end of the registry.
C12_ResultAppends ==
    [][\A x \in Waiting("folderAdded") :
          Deliver(x) =>
              IF x.err # NoText
              THEN /\ m'.cfgFolders = m.cfgFolders
                   /\ m'.rows = m.rows
                   /\ m'.selected = m.selected
              ELSE m'.cfgFolders = Append(m.cfgFolders, x.folder)]_vars

IsFolderRow(row) == row.typeOf = rowFolder
IsSessionRow(row) == row.typeOf = rowSession

\* C13: the folder rows are in strictly increasing registry index order,
\* and the session rows of one folder are in non-decreasing order of full
\* session name, whatever the order of the session map.
C13_RowsOrdered ==
    \A i, j \in 1..Len(m.rows) :
        i < j =>
            /\ IsFolderRow(m.rows[i]) /\ IsFolderRow(m.rows[j])
               => m.rows[i].folderIndex < m.rows[j].folderIndex
            /\ (/\ IsSessionRow(m.rows[i]) /\ IsSessionRow(m.rows[j])
                /\ m.rows[i].folderIndex = m.rows[j].folderIndex)
               => ~StrLess(m.rows[j].sessionName, m.rows[i].sessionName)

\* A session map that lists a folder's sessions in descending order was
\* delivered, and both sessions have a row.
C13_BuiltFromUnsorted ==
    /\ msgs = EmptyBag
    /\ \E k \in DOMAIN m.sessions :
           /\ Len(m.sessions[k]) = 2
           /\ StrLess(m.sessions[k][2].Name, m.sessions[k][1].Name)
           /\ \A n \in 1..2 : \E i \in 1..Len(m.rows) :
                  IsSessionRow(m.rows[i]) /\ m.rows[i].sessionName = m.sessions[k][n].Name
    /\ \E i, j \in 1..Len(m.rows) :
           i # j /\ IsFolderRow(m.rows[i]) /\ IsFolderRow(m.rows[j])

\* C14: each folder has at most one folder row, the first row is a folder
\* row, and every session row follows the folder row of its own folder with
\* only session rows of that folder in between.
C14_FolderRowPrecedes ==
    /\ \A i, j \in 1..Len(m.rows) :
           (i # j /\ IsFolderRow(m.rows[i]) /\ IsFolderRow(m.rows[j]))
           => m.rows[i].folderIndex # m.rows[j].folderIndex
    /\ Len(m.rows) > 0 => IsFolderRow(m.rows[1])
    /\ \A j \in 1..Len(m.rows) :
           IsSessionRow(m.rows[j]) =>
               \E i \in 1..(j - 1) :
                   /\ IsFolderRow(m.rows[i])
                   /\ m.rows[i].folderIndex = m.rows[j].folderIndex
                   /\ \A k \in (i + 1)..j :
                          /\ IsSessionRow(m.rows[k])
                          /\ m.rows[k].folderIndex = m.rows[j].folderIndex

\* Under a filter that no folder matches by itself, the rows of two folders
\* follow each other, each folder row with a session row behind it.
C14_TwoFoldersThroughSessions ==
    /\ msgs = EmptyBag
    /\ m.filterQuery = <<"O","N","E">>
    /\ \E i, j \in 1..(Len(m.rows) - 1) :
           /\ i < j
           /\ IsFolderRow(m.rows[i]) /\ IsSessionRow(m.rows[i + 1])
           /\ IsFolderRow(m.rows[j]) /\ IsSessionRow(m.rows[j + 1])

\* s contains the filter text, whatever the case of either.
ContainsFold(s, filter) == Contains(ToLower(s), ToLower(filter))

FolderMatchesFilter(folder, filter) ==
    \/ ContainsFold(folder.Name, filter)
    \/ ContainsFold(folder.Path, filter)
    \/ ContainsFold(folder.Namespace, filter)

SessionMatchesFilter(folder, s, filter) ==
    \/ ContainsFold(TrimPrefix(s.Name, folder.Namespace \o <<"/">>), filter)
    \/ ContainsFold(s.Name, filter)
    \/ ContainsFold(IF s.Attached THEN <<"a","t","t","a","c","h","e","d">>
                    ELSE <<"d","e","t","a","c","h","e","d">>, filter)

\* The sessions the map holds for the folder at an index.
Held(folderIndex) ==
    {SessionsOf(m.sessions, folderIndex)[n] :
        n \in 1..Len(SessionsOf(m.sessions, folderIndex))}

HasFolderRow(folderIndex) ==
    \E i \in 1..Len(m.rows) : IsFolderRow(m.rows[i]) /\ m.rows[i].folderIndex = folderIndex

HasSessionRow(folderIndex, s) ==
    \E i \in 1..Len(m.rows) :
        /\ IsSessionRow(m.rows[i])
        /\ m.rows[i].folderIndex = folderIndex
        /\ m.rows[i].sessionName = s.Name

\* C16: a folder has a folder row exactly when the filter is empty, or the
\* filter is a case-insensitive substring of the folder's name, path or
\* namespace, or one of the folder's sessions matches the filter.
C16_FolderIncluded ==
    \A folderIndex \in 0..(Len(m.cfgFolders) - 1) :
        HasFolderRow(folderIndex) <=>
            \/ m.filterQuery = NoStr
            \/ FolderMatchesFilter(m.cfgFolders[folderIndex + 1], m.filterQuery)
            \/ \E s \in Held(folderIndex) :
                   SessionMatchesFilter(m.cfgFolders[folderIndex + 1], s, m.filterQuery)

\* Under the filter ONE a folder is shown for its session alone, and a
\* folder that holds sessions, none matching, is not shown.
C16_ShownThroughSession ==
    /\ msgs = EmptyBag
    /\ m.filterQuery = <<"O","N","E">>
    /\ \E a, b \in 0..(Len(m.cfgFolders) - 1) :
           /\ HasFolderRow(a)
           /\ ~FolderMatchesFilter(m.cfgFolders[a + 1], m.filterQuery)
           /\ ~HasFolderRow(b)
           /\ Held(b) # {}

\* C17: in a folder that has a folder row, a session has a session row
\* exactly when the filter is empty, or the folder's own metadata matches the
\* filter, or the session itself matches.
C17_SessionIncluded ==
    \A folderIndex \in 0..(Len(m.cfgFolders) - 1) :
        HasFolderRow(folderIndex) =>
            \A s \in Held(folderIndex) :
                HasSessionRow(folderIndex, s) <=>
                    \/ m.filterQuery = NoStr
                    \/ FolderMatchesFilter(m.cfgFolders[folderIndex + 1], m.filterQuery)
                    \/ SessionMatchesFilter(m.cfgFolders[folderIndex + 1], s, m.filterQuery)

\* A folder that matches the filter by its path shows both of its sessions,
\* neither of which matches; another folder shows one of its two sessions.
C17_AllOrMatching ==
    /\ msgs = EmptyBag
    /\ \E a \in 0..(Len(m.cfgFolders) - 1) :
           /\ HasFolderRow(a)
           /\ FolderMatchesFilter(m.cfgFolders[a + 1], m.filterQuery)
           /\ Cardinality(Held(a)) = 2
           /\ \A s \in Held(a) :
                  /\ HasSessionRow(a, s)
                  /\ ~SessionMatchesFilter(m.cfgFolders[a + 1], s, m.filterQuery)

\* The fetch results that a step has added to the waiting messages.
NewlyLoaded ==
    {x \in DOMAIN msgs' : x.type = "sessionsLoaded" /\ CopiesIn(x, msgs') > CopiesIn(x, msgs)}

\* The names a fetch result lists under a folder index.
NamesUnder(x, folderIndex) ==
    {SessionsOf(x.sessions, folderIndex)[n].Name :
        n \in 1..Len(SessionsOf(x.sessions, folderIndex))}

\* How often a fetch result lists a name under a folder index.
TimesUnder(x, folderIndex, name) ==
    Cardinality({n \in 1..Len(SessionsOf(x.sessions, folderIndex)) :
                    SessionsOf(x.sessions, folderIndex)[n].Name = name})

Prefixes(folder, name) == HasPrefix(name, folder.Namespace \o <<"/">>)

\* C15: a fetch that lists the sessions returns no error and a map whose
\* keys are folder indices; a session of tmux is listed once under the folder
\* whose namespace and slash prefix its name and under no other folder, a
\* session that no namespace prefixes is listed nowhere, and nothing else is
\* listed.
C15_OneFolderPerSession ==
    [][\A c \in Issued("loadSessions") :
          (LoadSessionsOk(c) \/ LoadSessionsNoPanes(c)) =>
              /\ NewlyLoaded # {}
              /\ \A x \in NewlyLoaded :
                     /\ x.err = NoText
                     /\ DOMAIN x.sessions \subseteq 0..(Len(c.folders) - 1)
                     /\ \A k \in DOMAIN x.sessions : NamesUnder(x, k) \subseteq backend
                     /\ \A name \in backend, k \in 0..(Len(c.folders) - 1) :
                            TimesUnder(x, k, name) =
                                IF Prefixes(c.folders[k + 1], name) THEN 1 ELSE 0]_vars

\* With api/one, web/two and other/skip in tmux and the folders api and web,
\* a fetch result lists exactly api/one under api and web/two under web.
C15_OtherSkipped ==
    /\ backend = InitBackend
    /\ m.cfgFolders = InitFolders
    /\ \E x \in Waiting("sessionsLoaded") :
           /\ x.err = NoText
           /\ DOMAIN x.sessions = {0, 1}
           /\ NamesUnder(x, 0) = {ApiOne} /\ Len(x.sessions[0]) = 1
           /\ NamesUnder(x, 1) = {WebTwo} /\ Len(x.sessions[1]) = 1

\* The sessions that pane records of a list belong to a session.
PanesOfSession(list, name) == {i \in 1..Len(list) : list[i].SessionName = name}

\* C18: in the merged states of a list of pane records, a session's alert
\* flag is set exactly when one of the session's pane records has it set, and
\* its command, title and path are those of the record of the active pane of
\* the active window.
C18_FlagsUnion ==
    \A name \in DOMAIN ActivePaneStates(panes) :
        \E st \in {ActivePaneStates(panes)[name]} :
            /\ st.BellFlag <=> \E i \in PanesOfSession(panes, name) : panes[i].BellFlag
            /\ st.ActivityFlag <=> \E i \in PanesOfSession(panes, name) : panes[i].ActivityFlag
            /\ st.SilenceFlag <=> \E i \in PanesOfSession(panes, name) : panes[i].SilenceFlag
            /\ \A i \in PanesOfSession(panes, name) :
                   (panes[i].WindowActive /\ panes[i].PaneActive) =>
                       /\ st.Command = panes[i].Command
                       /\ st.PaneTitle = stripTitleBranding(TrimSpace(panes[i].PaneTitle))
                       /\ st.CurrentPath = panes[i].CurrentPath

\* The sessions a fetch result lists.
Listed(x) ==
    UNION {{x.sessions[k][n] : n \in 1..Len(x.sessions[k])} : k \in DOMAIN x.sessions}

\* C19: a fetch whose session listing succeeds and whose pane listing fails
\* returns no error, every session of tmux that a folder's namespace prefixes
\* under that folder, and command, title and path unset; the only error a
\* fetch returns is that of the session listing.
C19_PaneFailureDegrades ==
    [][\A c \in Issued("loadSessions") :
          /\ LoadSessionsNoPanes(c) =>
                 /\ NewlyLoaded # {}
                 /\ \A x \in NewlyLoaded :
                        /\ x.err = NoText
                        /\ \A name \in backend, k \in 0..(Len(c.folders) - 1) :
                               Prefixes(c.folders[k + 1], name) => name \in NamesUnder(x, k)
                        /\ \A s \in Listed(x) :
                               /\ s.CurrentCommand = NoStr
                               /\ s.PaneTitle = NoStr
                               /\ s.CurrentPath = NoStr
          /\ (LoadSessionsOk(c) \/ LoadSessionsNoPanes(c) \/ LoadSessionsErr(c)) =>
                 \A x \in NewlyLoaded :
                     x.err # NoText => /\ x.err = Err("tmux list-sessions")
                                       /\ LoadSessionsErr(c)]_vars

\* The model holds api/one without a command although tmux lists the active
\* pane of api/one: the result of a fetch whose pane listing failed arrived.
C19_LoadedWithoutPanes ==
    /\ m.errMsg = NoText
    /\ \E i \in 1..Len(panes) : panes[i] = ApiActive
    /\ \E s \in Held(0) : s.Name = ApiOne /\ s.CurrentCommand = NoStr
    /\ \E i \in 1..Len(m.rows) : m.rows[i].sessionName = ApiOne

\* C20: enter in preview mode leaves the preview, un-zooms and issues the
\* attach to the session being previewed, the preview target, whatever
\* fetch results were delivered while the preview was active.
C20_EnterAttachesPreviewed ==
    (PreviewActive /\ ~PromptOpen /\ ~KillPending /\ m.previewTarget # NoStr) =>
        \E r \in {Update(m, KeyMsg("enter"), FALSE)} :
            /\ r.m.detailMode = detailNormal
            /\ ~r.m.previewZoomed
            /\ r.cmds = {attachCmd(m.previewTarget)}

\* The action results that a step has added to the waiting messages.
NewResults ==
    {x \in DOMAIN msgs' : x.type = "actionResult" /\ CopiesIn(x, msgs') > CopiesIn(x, msgs)}

\* The attach commands that a step has issued.
NewAttaches == {c \in DOMAIN cmds' : c.op = "attach" /\ CopiesIn(c, cmds') > CopiesIn(c, cmds)}

WebNew == <<"w","e","b","/","w","e","b","-","0","1">>

Chars(s) == {s[i] : i \in 1..Len(s)}

\* The name a create or a rename passes to tmux.
PassedName(c) == IF c.op = "newSession" THEN c.fullName ELSE c.newName

\* C22: the name that the submission of the new-session or the rename prompt
\* passes to tmux is the namespace of the selected row's folder, a slash and
\* a sanitized leaf without slash; a renamed session is one of that folder;
\* and the grouping of a fetch puts the name under that folder.
C22_NamesUnderFolder ==
    (PromptOpen /\ m.promptMode \in {promptNewSession, promptRenameSession}) =>
        \A c \in Update(m, KeyMsg("enter"), FALSE).cmds :
            \E k \in {m.rows[m.selected + 1].folderIndex}, name \in {PassedName(c)} :
                /\ c.op = IF m.promptMode = promptNewSession THEN "newSession"
                          ELSE "renameSession"
                /\ Prefixes(m.cfgFolders[k + 1], name)
                /\ \E leaf \in {TrimPrefix(name, m.cfgFolders[k + 1].Namespace \o <<"/">>)} :
                       /\ leaf # NoStr
                       /\ "/" \notin Chars(leaf)
                       /\ sanitizeLeaf(leaf) = leaf
                /\ c.op = "renameSession" => Prefixes(m.cfgFolders[k + 1], c.oldName)
                /\ FolderOf(m.cfgFolders, name) = k

\* Navigate mode: no prompt open, no kill confirmation pending, no preview.
Navigate(mm) ==
    /\ mm.promptMode = promptNone
    /\ mm.confirmKillTarget = NoStr
    /\ mm.detailMode = detailNormal

\* The model after the escape key.
AfterEscape(mm) == Update(mm, KeyMsg("esc"), FALSE).m

\* How many escape keys bring a model to Navigate mode; 3 when two do not.
EscapesToNavigate(mm) ==
    IF Navigate(mm) THEN 0
    ELSE IF Navigate(AfterEscape(mm)) THEN 1
    ELSE IF Navigate(AfterEscape(AfterEscape(mm))) THEN 2
    ELSE 3

\* C23: in every reachable state of the running program two escape keys
\* at most bring the model to Navigate mode, and no step other than an input
\* of the user (the delivery of an async message, the run of a command)
\* raises the number of escape keys that are needed.
C23_EscapeReachesNavigate ==
    /\ [](running => EscapesToNavigate(m) <= 2)
    /\ [][presses' = presses => EscapesToNavigate(m') <= EscapesToNavigate(m)]_vars

\* The preview is zoomed, two escape keys away from Navigate mode, and a
\* capture result waits to be delivered.
C23_ZoomedWithResultWaiting ==
    /\ running
    /\ EscapesToNavigate(m) = 2
    /\ Waiting("paneCaptured") # {}

\* A call of one function has returned.
Done(fn) == frame # NoFrame /\ frame.fn = fn /\ frame.returned

Clamp(v, lo, hi) == IF v < lo THEN lo ELSE IF v > hi THEN hi ELSE v

\* C24: for a selection within total rows and a positive max, windowAround
\* returns [0, total) when total <= max and otherwise the max rows that
\* start at selected - max/2 clamped to [0, total - max]; the selection is
\* within the window and the window within the rows; (0,20,7), (19,20,7)
\* and (5,20,7) give (0,7), (13,20) and (2,9).
C24_WindowAround ==
    Done("windowAround") =>
        \E selected \in {frame.args[1]}, total \in {frame.args[2]}, max \in {frame.args[3]},
           start \in {frame.result[1]}, end \in {frame.result[2]} :
            (total >= 1 /\ 0 <= selected /\ selected < total /\ max > 0) =>
                /\ total <= max => start = 0 /\ end = total
                /\ total > max =>
                       /\ start = Clamp(selected - max \div 2, 0, total - max)
                       /\ end = start + max
                /\ 0 <= start /\ start <= selected /\ selected < end /\ end <= total
                /\ frame.args = <<0, 20, 7>> => frame.result = <<0, 7>>
                /\ frame.args = <<19, 20, 7>> => frame.result = <<13, 20>>
                /\ frame.args = <<5, 20, 7>> => frame.result = <<2, 9>>

\* windowAround has returned the last 7 of 20 rows for the last row.
C24_WindowAtEnd ==
    Done("windowAround") /\ frame.args = <<19, 20, 7>> /\ frame.result = <<13, 20>>

IsAlnum(c) == c \in Lower \cup Digit

\* The positions of a text that hold a letter or a digit, and the n-th of them.
AlnumAt(s) == {i \in 1..Len(s) : IsAlnum(s[i])}
Nth(S, n) == CHOOSE p \in S : Cardinality({q \in S : q < p}) = n - 1

\* C25: the result of sanitizeLeaf is not empty, is made of a-z, 0-9 and
\* the hyphen, neither starts nor ends with a hyphen and has no two hyphens in
\* a row; its letters and digits are those of the lower-cased input, in
\* order; a hyphen stands between two of them exactly when the input has
\* between them a character that is not a slash; an input without letter
\* or digit gives `session`.
C25_SanitizedLeaf ==
    Done("sanitizeLeaf") =>
        \E in \in {ToLower(frame.args[1])}, out \in {frame.result} :
            /\ out # NoStr
            /\ Chars(out) \subseteq Lower \cup Digit \cup {"-"}
            /\ out[1] # "-" /\ out[Len(out)] # "-"
            /\ \A i \in 1..(Len(out) - 1) : ~(out[i] = "-" /\ out[i + 1] = "-")
            /\ AlnumAt(in) = {} => out = <<"s","e","s","s","i","o","n">>
            /\ AlnumAt(in) # {} =>
                   /\ SelectSeq(out, IsAlnum) = SelectSeq(in, IsAlnum)
                   /\ \A j \in 1..(Cardinality(AlnumAt(in)) - 1) :
                          Nth(AlnumAt(out), j + 1) > Nth(AlnumAt(out), j) + 1
                          <=> \E k \in (Nth(AlnumAt(in), j) + 1)..(Nth(AlnumAt(in), j + 1) - 1) :
                                  in[k] # "/"

\* sanitizeLeaf has lower-cased a capital, dropped a slash and turned
\* another sign into a hyphen.
C25_SlashDroppedSignDashed ==
    /\ Done("sanitizeLeaf")
    /\ frame.args[1] = <<"B","/","a","_","1">>
    /\ frame.result = <<"b","a","-","1">>

\* C26: after AppendFolder the file starts with its previous text, and
\* loading it gives the folders of the previous text and, last, a folder with
\* the name, the path, the default command and the editor command of the
\* folder that was appended.
C26_AppendedFolderReloads ==
    Done("AppendFolder") =>
        \E before \in {Load(frame.args[1])}, after \in {Load(frame.result)},
           f \in {frame.args[2]} :
            /\ HasPrefix(frame.result, frame.args[1])
            /\ before.err = NoText
            /\ after.err = NoText
            /\ Len(after.folders) = Len(before.folders) + 1
            /\ SubSeq(after.folders, 1, Len(before.folders)) = before.folders
            /\ \E last \in {after.folders[Len(after.folders)]} :
                   /\ last.Name = f.Name
                   /\ last.Path = f.Path
                   /\ last.DefaultCommand = f.DefaultCommand
                   /\ last.EditorCommand = f.EditorCommand

\* C27: in Navigate mode, with the selection on a row, up selects the row
\* before it, or the same row when it is row 0, and down the row after it, or
\* the same row when it is the last; with no rows and the selection at 0 it
\* stays 0; and either key leaves everything but the selection and the
\* detail scroll as it is (rows, filter, mode) and issues no command.
C27_UpDownMoveByOne ==
    Navigate(m) =>
        \A k \in {"up", "down"} :
            \E r \in {Update(m, KeyMsg(k), FALSE)} :
                /\ r.cmds = {} /\ ~r.quit
                /\ r.m = [m EXCEPT !.selected = r.m.selected,
                                    !.detailScroll = r.m.detailScroll]
                /\ HasSelection(m) =>
                       r.m.selected =
                           IF k = "up"
                           THEN (IF m.selected = 0 THEN 0 ELSE m.selected - 1)
                           ELSE (IF m.selected = Len(m.rows) - 1 THEN m.selected
                                 ELSE m.selected + 1)
                /\ (Len(m.rows) = 0 /\ m.selected = 0) => r.m.selected = 0

\* The down key has brought the selection to the last of four rows.
C27_OnLastRow ==
    /\ Navigate(m)
    /\ Len(m.rows) = 4
    /\ m.selected = 3
    /\ presses >= 3

isShellCommand(cmd) ==
    ToLower(cmd) \in {<<"z","s","h">>, <<"b","a","s","h">>, <<"f","i","s","h">>,
                      <<"s","h">>, <<"d","a","s","h">>, <<"k","s","h">>}

\* The title the session card shows: one with a slash, a space or an inner dot.
paneDisplayTitle(row) ==
    LET t == TrimSpace(row.paneTitle)
    IN IF t = NoStr THEN NoStr
       ELSE IF Contains(t, <<"/">>) \/ Contains(t, <<" ">>) THEN t
       ELSE IF \E dot \in 2..(Len(t) - 1) : t[dot] = "." THEN t
       ELSE NoStr

\* The number of lines renderDetailPane builds for the selected row. The
\* row's lastActivity and hasAlerts are not part of the rows kept here:
\* activity and alerts say whether their two lines are there.
detailLineCount(mm, activity, alerts) ==
    LET row == mm.rows[mm.selected + 1]
        folder == mm.cfgFolders[row.folderIndex + 1]
        sessions == SessionsOf(mm.sessions, row.folderIndex)
        Busy(i) == sessions[i].CurrentCommand # NoStr
                   /\ ~isShellCommand(sessions[i].CurrentCommand)
        Alert(i) == sessions[i].AlertsBell \/ sessions[i].AlertsActivity
                    \/ sessions[i].AlertsSilence
        One(b) == IF b THEN 1 ELSE 0
    IN IF row.typeOf = rowFolder
       THEN 4 + One(folder.DefaultCommand # NoStr)
              + (IF Len(sessions) > 0
                 THEN One(\E i \in 1..Len(sessions) : Busy(i) \/ Alert(i))
                      + 2 + Len(sessions)
                 ELSE 2)
       ELSE 6 + One(row.currentCommand # NoStr)
              + One(paneDisplayTitle(row) # NoStr)
              + One(activity) + One(alerts)

\* The slice [start, end) of the n > 0 lines that renderDetailLines joins.
renderDetailLines(mm, n, innerH) ==
    LET bodyHeight == IF innerH < 4 THEN 4 ELSE innerH
        scroll == IF mm.detailScroll < 0 THEN 0
                  ELSE IF mm.detailScroll >= n THEN n - 1 ELSE mm.detailScroll
    IN IF scroll + bodyHeight > n
       THEN <<IF n - bodyHeight < 0 THEN 0 ELSE n - bodyHeight, n>>
       ELSE <<scroll, scroll + bodyHeight>>

\* The slice rendered for the selected row is within its lines.
SliceWithinLines ==
    (HasSelection(m) /\ m.detailMode = detailNormal) =>
        \A activity, alerts \in BOOLEAN, innerH \in 0..contentHeight :
            \E n \in {detailLineCount(m, activity, alerts)} :
                \E slice \in {renderDetailLines(m, n, innerH)} :
                    0 <= slice[1] /\ slice[1] <= slice[2] /\ slice[2] <= n

\* C28: with the details of the selected row shown, the stored scroll offset
\* is an index of one of its lines, whichever of the optional lines are
\* there, and the rendered slice [start, end) lies within the lines.
C28_ScrollWithinLines ==
    /\ (HasSelection(m) /\ m.detailMode = detailNormal) =>
           \A activity, alerts \in BOOLEAN :
               /\ 0 <= m.detailScroll
               /\ m.detailScroll <= detailLineCount(m, activity, alerts) - 1
    /\ SliceWithinLines

\* The step calls rebuildRows: a fetch or an added folder arrives without
\* error at its handler, the filter is submitted, or escape clears it.
RebuildStep ==
    \/ /\ m.promptMode = promptNone
       /\ m.confirmKillTarget = NoStr
       /\ \E x \in Waiting("sessionsLoaded") \cup Waiting("folderAdded") :
              x.err = NoText /\ Deliver(x)
    \/ m.promptMode = promptFilter /\ Press("enter", MaxPresses)
    \/ Navigate(m) /\ m.filterQuery # NoStr /\ Press("esc", MaxPresses)

\* The step is an up or down key that leaves the selection on its row.
ClampedStep ==
    /\ Navigate(m)
    /\ HasSelection(m)
    /\ m'.selected = m.selected
    /\ Press("up", MaxPresses) \/ Press("down", MaxPresses)

OnSession(mm) ==
    /\ Len(mm.rows) > 0
    /\ mm.selected \in 0..(Len(mm.rows) - 1)
    /\ mm.rows[mm.selected + 1].typeOf = rowSession

SessionKeys == {"R", "c", "K", "v"}

\* C30: in Navigate mode each of the keys R, c, K and v, pressed with the
\* selection not on a session row, sets an error and nothing else (no prompt,
\* no kill target, no preview, no command); pressed on a session row, R opens
\* the rename prompt, c the command prompt, K sets the kill target to the
\* session's full name and v enters the preview.
C30_SessionKeysNeedSession ==
    Navigate(m) =>
        \A k \in SessionKeys, copiedFirst \in BOOLEAN :
            \E r \in {Update(m, KeyMsg(k), copiedFirst)} :
                IF ~OnSession(m)
                THEN /\ r.m.errMsg # NoText
                     /\ r.m = [m EXCEPT !.errMsg = r.m.errMsg]
                     /\ r.cmds = {}
                     /\ ~r.quit
                ELSE CASE k = "R" -> r.m.promptMode = promptRenameSession
                       [] k = "c" -> r.m.promptMode = promptRunCommand
                       [] k = "K" -> /\ r.m.confirmKillTarget # NoStr
                                     /\ r.m.confirmKillTarget
                                            = m.rows[m.selected + 1].sessionName
                       [] k = "v" -> r.m.detailMode = detailPreview

\* The kill key has been refused on a folder row, and the selection has
\* since moved to a session row.
C30_RefusedThenOnSession ==
    /\ Navigate(m)
    /\ OnSession(m)
    /\ m.errMsg = Text("select a session to kill", NoStr)

\* The rows of folder k with no filter: its row, then its sessions by name.
TreeOfFolder(mm, k) ==
    <<FolderRow(k)>>
        \o SessionRows(k, mm.cfgFolders[k + 1], SortByName(SessionsOf(mm.sessions, k)))

RECURSIVE TreeFrom(_, _)
TreeFrom(mm, k) ==
    IF k >= Len(mm.cfgFolders) THEN <<>> ELSE TreeOfFolder(mm, k) \o TreeFrom(mm, k + 1)

\* C31: in Navigate mode escape with a filter set empties the filter, makes
\* the rows the unfiltered tree (every folder's row followed by all of its
\* sessions), sets the status "filter cleared" and schedules its clear, and
\* nothing else; escape with no filter changes nothing and issues nothing.
C31_EscapeClearsFilter ==
    Navigate(m) =>
        \E r \in {Update(m, KeyMsg("esc"), FALSE)} :
            IF m.filterQuery # NoStr
            THEN /\ r.m.filterQuery = NoStr
                 /\ r.m.rows = TreeFrom(m, 0)
                 /\ r.m.statusMsg = Text("filter cleared", NoStr)
                 /\ r.m.statusSeq = m.statusSeq + 1
                 /\ r.cmds = {[op |-> "clearStatus", seq |-> r.m.statusSeq,
                               forStatus |-> r.m.statusMsg]}
                 /\ Navigate(r.m)
                 /\ r.m.sessions = m.sessions /\ r.m.cfgFolders = m.cfgFolders
                 /\ ~r.quit
            ELSE r.m = m /\ r.cmds = {} /\ ~r.quit

\* A filter that hides rows is set, with sessions fetched.
C31_FilterHidesRows ==
    /\ Navigate(m)
    /\ m.filterQuery # NoStr
    /\ m.sessions # <<>>
    /\ Len(m.rows) < Len(TreeFrom(m, 0))

\* C32: escape in any open prompt, whatever its text, gives Navigate mode
\* with the filter, rows, selection, sessions, folders and kill target as
\* they were, and issues no command at all.
C32_CancelLeavesModel ==
    m.promptMode # promptNone =>
        \E r \in {Update(m, KeyMsg("esc"), FALSE)} :
            /\ Navigate(r.m)
            /\ r.m.filterQuery = m.filterQuery
            /\ r.m.rows = m.rows
            /\ r.m.selected = m.selected
            /\ r.m.sessions = m.sessions
            /\ r.m.cfgFolders = m.cfgFolders
            /\ r.m.confirmKillTarget = m.confirmKillTarget
            /\ r.cmds = {}
            /\ ~r.quit

\* The rename prompt is open on a session row with a new name typed.
C32_TypedInRename ==
    /\ m.promptMode = promptRenameSession
    /\ m.promptValue = <<" ","T","w","/","o"," ">>
    /\ m.selected > 0
    /\ m.sessions # <<>>

\* The add-folder prompt is open.
Adding(mm) == mm.promptMode = promptAddFolder

\* The append-folder commands the step has dispatched.
NewAppends ==
    {c \in DOMAIN cmds' : c.op = "addFolder" /\ CopiesIn(c, cmds') > CopiesIn(c, cmds)}

\* C33: the add-folder prompt opens at step 0 and stays within steps 0..3; a
\* step in it keeps promptStep or, on an accepted submission, raises it by one;
\* the name and namespace are kept from step 1 on and the path from step 2 on,
\* the path being the one submitted at step 1; and an append-folder command
\* is dispatched only by the submission at step 3, for a folder with a name,
\* the slug of the name as its non-empty namespace, and that path.
C33_AddFolderStepsInOrder ==
    [][/\ (Adding(m') /\ ~Adding(m)) => m'.promptStep = 0
       /\ Adding(m') => m'.promptStep \in 0..3
       /\ (Adding(m) /\ Adding(m')) =>
              /\ m'.promptStep \in {m.promptStep, m.promptStep + 1}
              /\ m.promptStep >= 1 =>
                     /\ m'.pendingFolder.Name = m.pendingFolder.Name
                     /\ m'.pendingFolder.Namespace = m.pendingFolder.Namespace
              /\ m.promptStep >= 2 => m'.pendingFolder.Path = m.pendingFolder.Path
              /\ (m.promptStep = 1 /\ m'.promptStep = 2) =>
                     /\ m'.pendingFolder.Path = Abs(ExpandHome(TrimSpace(m.promptValue)))
                     /\ StatDir(m'.pendingFolder.Path)
       /\ \A c \in NewAppends :
              /\ Adding(m) /\ m.promptStep = 3 /\ ~Adding(m')
              /\ c.folder.Name # NoStr
              /\ c.folder.Namespace # NoStr
              /\ c.folder.Namespace = Slug(c.folder.Name)
              /\ c.folder.Name = m.pendingFolder.Name
              /\ c.folder.Path = m.pendingFolder.Path
              /\ StatDir(c.folder.Path)]_vars

\* The append of the folder Ops at the home directory has been dispatched
\* with an empty default command.
C33_OpsDispatched ==
    \E c \in DOMAIN cmds :
        /\ c.op = "addFolder"
        /\ c.folder.Name = <<"O","p","s">>
        /\ c.folder.Path = Home
        /\ c.folder.DefaultCommand = NoStr
        /\ m.promptStep = 3
        /\ ~Adding(m)

\* C34: a waiting preview tick, delivered outside the preview, changes
\* nothing and issues nothing; delivered in the preview it issues exactly one
\* capture, of the preview target under the preview sequence, and the next
\* preview tick, and changes nothing in the model.
C34_PreviewTickOnlyInPreview ==
    \A x \in Waiting("previewTick") :
        \E r \in {Update(m, x, FALSE)} :
            /\ r.m = m
            /\ ~r.quit
            /\ IF m.detailMode # detailPreview THEN r.cmds = {}
               ELSE /\ Cardinality(r.cmds) = 2
                    /\ previewTickCmd \in r.cmds
                    /\ \E c \in r.cmds :
                           /\ c.op = "capturePane"
                           /\ c.target = m.previewTarget
                           /\ c.seq = m.previewSeq

\* The preview is on, with a target, and its tick waits.
C34_TickWaitingInPreview ==
    /\ m.detailMode = detailPreview
    /\ m.previewSeq >= 1
    /\ m.previewTarget # NoStr
    /\ Waiting("previewTick") # {}

\* What the sessionsLoadedMsg x does to the model, as the claim has it.
FetchResultApplied(x) ==
    \E r \in {Update(m, x, FALSE)} :
        /\ r.cmds = {}
        /\ ~r.quit
        /\ IF x.err # NoText
           THEN r.m = [m EXCEPT !.errMsg = x.err]
           ELSE /\ r.m.sessions = x.sessions
                /\ r.m.rows = BuildRows([m EXCEPT !.sessions = x.sessions], 0)
                /\ r.m.errMsg = NoText
                /\ r.m.filterQuery = m.filterQuery
                /\ r.m.cfgFolders = m.cfgFolders

\* C35: every waiting fetch result, when delivered, is applied: one with an
\* error sets errMsg to it and changes nothing else; one without replaces the
\* sessions, rebuilds the rows from them and empties errMsg; neither issues a
\* command.
C35_FetchResultApplied == \A x \in Waiting("sessionsLoaded") : FetchResultApplied(x)

\* C36: the rows are what rebuildRows builds from the folders, the sessions
\* and the filter the model holds.
C36_RowsAreBuilt == m.rows = BuildRows(m, 0)

\* A folder has been added, sessions are fetched and a filter is set.
C36_AddedFetchedFiltered ==
    /\ Len(m.cfgFolders) = 3
    /\ m.sessions # <<>>
    /\ m.filterQuery # NoStr

\* The indices of the folders the model holds.
FolderIndices == 0..(Len(m.cfgFolders) - 1)

\* C37: the folder index of every row, every key of the session map, and
\* every key of a fetch result that waits to be delivered, is an index of a
\* folder the model holds: m.cfg.Folders[row.folderIndex] is never out of
\* range.
C37_FolderIndicesValid ==
    /\ \A i \in 1..Len(m.rows) : m.rows[i].folderIndex \in FolderIndices
    /\ DOMAIN m.sessions \subseteq FolderIndices
    /\ \A x \in Waiting("sessionsLoaded") : DOMAIN x.sessions \subseteq FolderIndices

\* A fetch issued with two folders has yet to run, and a third folder has
\* been added since.
C37_FetchOlderThanFolder ==
    /\ Len(m.cfgFolders) = 3
    /\ \E c \in Issued("loadSessions") : Len(c.folders) = 2

\* The preview ticks that are scheduled and not yet delivered.
PendingPreviewTicks == CopiesIn(TimerMsg(previewTickCmd), msgs)

\* C38: at most one preview tick is pending.
C38_OnePreviewTick == PendingPreviewTicks <= 1

\* The rename or the run-command prompt is open.
OnSessionPrompt(mm) == mm.promptMode \in {promptRenameSession, promptRunCommand}

\* The rename and send-keys commands the step has dispatched.
NewSessionActs ==
    {c \in DOMAIN cmds' : /\ c.op \in {"renameSession", "sendCommand"}
                          /\ CopiesIn(c, cmds') > CopiesIn(c, cmds)}

\* The session a rename or send-keys command acts on.
ActsOn(c) == IF c.op = "renameSession" THEN c.oldName ELSE c.name

\* C39: the rename and run-command prompts open with the selection on a
\* session row; no step changes the rows or the selection from the step that
\* opens the prompt to the step that closes it; and a rename or send-keys
\* command is dispatched only by the step that closes such a prompt, for the
\* session of the selected row.
C39_PromptKeepsItsSession ==
    [][/\ (OnSessionPrompt(m) \/ OnSessionPrompt(m')) =>
              /\ m'.rows = m.rows
              /\ m'.selected = m.selected
              /\ OnSession(m)
       /\ \A c \in NewSessionActs :
              /\ OnSessionPrompt(m) /\ ~OnSessionPrompt(m')
              /\ ActsOn(c) = m.rows[m.selected + 1].sessionName]_vars

\* The rename prompt is open on a session row and a fetch result with other
\* sessions than the model's waits.
C39_FetchWaitsUnderRename ==
    /\ m.promptMode = promptRenameSession
    /\ OnSession(m)
    /\ \E x \in Waiting("sessionsLoaded") : x.err = NoText /\ x.sessions # m.sessions

\* Every waiting capture result that Update would accept is of the preview
\* target.
AcceptedAreOfTarget ==
    \A x \in Waiting("paneCaptured") : x.seq = m.previewSeq => x.target = m.previewTarget

\* The return statement of the v case has been evaluated in one order at
\* every entry into the preview: the model was always read after the call of
\* startPreview (every entry has raised previewSeq), or always before it
\* (none has).
OneOrder == m.previewSeq \in {0, m.previewEntry}

\* C40: with one order of evaluation at the v case, every waiting capture
\* result whose sequence is the preview sequence is of the preview target;
\* and in every step the preview sequence does not decrease, it changes only
\* by one and only on entering the preview, together with the target being
\* set to the selected session, and the target does not change without it.
C40_AcceptedFromTarget ==
    /\ [](OneOrder => AcceptedAreOfTarget)
    /\ [][/\ m'.previewSeq >= m.previewSeq
          /\ m'.previewSeq # m.previewSeq =>
                 /\ m'.previewSeq = m.previewSeq + 1
                 /\ m.detailMode = detailNormal
                 /\ m'.detailMode = detailPreview
                 /\ m'.previewTarget = m.rows[m.selected + 1].sessionName
          /\ m'.previewTarget # m.previewTarget => m'.previewSeq # m.previewSeq]_vars

\* The second preview is of another session than the first, and a capture
\* of the first still waits to be delivered.
C40_StaleCaptureWaits ==
    /\ m.detailMode = detailPreview
    /\ m.previewEntry = 2
    /\ m.previewSeq = 2
    /\ \E x \in Waiting("paneCaptured") : x.seq = 1 /\ x.target # m.previewTarget

====
